---- MODULE Spec2Model ----
(***************************************************************************)
(* A model of the domo command line client and of the typed API client it  *)
(* drives: one CLI invocation talking to a server that may answer every    *)
(* request in any way (transport failure, any status, any body).           *)
(***************************************************************************)
EXTENDS Integers, Sequences, FiniteSets, TLC

\* ------------------------------------------------------------------ bounds
\* list-all: the model stops following the loop after this many full pages
MaxPages == 3
\* page update-collection: longest collection list the server returns
MaxCollections == 2

\* -------------------------------------------------------- program constants
\* the page size of the list-all loops: Some(50), len() < 50, offset += 50
PageSize == 50

\* ------------------------------------------------------------ Option<T>
None == <<>>
Some(v) == <<v>>
IsSome(o) == Len(o) = 1
IsNone(o) == Len(o) = 0

\* ------------------------------------------------------- client methods
\* name, token scope, HTTP verb, path, the number of ids the path embeds,
\* what the 2xx body is decoded into
\* (unit = (), obj = a record, list = Vec of records, wrapped = a record
\* holding the list, string = body_string, bytes = body_bytes), the HTTP
\* library the method is written against, and whether the method reads its
\* request body from a file before it sends the request.
Method(name, scope, verb, route, nids, ret, style, file) ==
    [name |-> name, scope |-> scope, verb |-> verb, route |-> route,
     nids |-> nids, ret |-> ret, style |-> style, file |-> file]

AccountMethods ==
    { Method("get_accounts", "account", "GET", "/v1/accounts", 0, "list", "surf", FALSE),
      Method("post_account", "account", "POST", "/v1/accounts", 0, "obj", "surf", FALSE),
      Method("get_account", "account", "GET", "/v1/accounts/{}", 1, "obj", "surf", FALSE),
      Method("patch_account", "account", "PATCH", "/v1/accounts/{}", 1, "unit", "surf", FALSE),
      Method("delete_account", "account", "DELETE", "/v1/accounts/{}", 1, "unit", "surf", FALSE),
      Method("post_account_share", "account", "POST", "/v1/accounts/{}/shares", 1, "unit", "surf", FALSE),
      Method("get_account_types", "account", "GET", "/v1/account-types", 0, "list", "surf", FALSE),
      Method("get_account_type", "account", "GET", "/v1/account-types/{}", 1, "obj", "surf", FALSE) }

ActivityMethods ==
    { Method("get_entries", "audit", "GET", "/v1/audit", 0, "list", "surf", FALSE) }

BuzzMethods ==
    { Method("get_integrations", "buzz", "GET", "/v1/buzz/integrations", 0, "wrapped", "surf", FALSE),
      Method("post_integration", "buzz", "POST", "/v1/buzz/integrations", 0, "obj", "surf", FALSE),
      Method("get_integration", "buzz", "GET", "/v1/buzz/integrations/{}", 1, "obj", "surf", FALSE),
      Method("delete_integration", "buzz", "DELETE", "/v1/buzz/integrations/{}", 1, "unit", "surf", FALSE),
      Method("get_integration_subscriptions", "buzz", "GET", "/v1/buzz/integrations/{}/subscriptions", 1, "wrapped", "surf", FALSE),
      Method("post_integration_subscription", "buzz", "POST", "/v1/buzz/integrations/{}/subscriptions", 1, "obj", "surf", FALSE),
      Method("delete_integration_subscription", "buzz", "DELETE", "/v1/buzz/integrations/{}/subscriptions/{}", 2, "unit", "surf", FALSE) }

DataSetMethods ==
    { Method("get_datasets", "data", "GET", "/v1/datasets", 0, "list", "surf", FALSE),
      Method("post_dataset", "data", "POST", "/v1/datasets", 0, "obj", "surf", FALSE),
      Method("get_dataset", "data", "GET", "/v1/datasets/{}", 1, "obj", "surf", FALSE),
      Method("put_dataset", "data", "PUT", "/v1/datasets/{}", 1, "obj", "surf", FALSE),
      Method("delete_dataset", "data", "DELETE", "/v1/datasets/{}", 1, "unit", "surf", FALSE),
      Method("get_dataset_data", "data", "GET", "/v1/datasets/{}/data", 1, "string", "surf", FALSE),
      Method("put_dataset_data", "data", "PUT", "/v1/datasets/{}/data", 1, "unit", "surf", FALSE),
      Method("post_dataset_query", "data", "POST", "/v1/datasets/query/execute/{}", 1, "obj", "surf", FALSE),
      Method("get_dataset_policies", "data", "GET", "/v1/datasets/{}/policies", 1, "list", "surf", FALSE),
      Method("post_dataset_policy", "data", "POST", "/v1/datasets/{}/policies", 1, "obj", "surf", FALSE),
      Method("get_dataset_policy", "data", "GET", "/v1/datasets/{}/policies/{}", 2, "obj", "surf", FALSE),
      Method("put_dataset_policy", "data", "PUT", "/v1/datasets/{}/policies/{}", 2, "obj", "surf", FALSE),
      Method("delete_dataset_policy", "data", "DELETE", "/v1/datasets/{}/policies/{}", 2, "unit", "surf", FALSE) }

GroupMethods ==
    { Method("get_groups", "user", "GET", "/v1/groups", 0, "list", "surf", FALSE),
      Method("post_group", "user", "POST", "/v1/groups", 0, "obj", "surf", FALSE),
      Method("get_group", "user", "GET", "/v1/groups/{}", 1, "obj", "surf", FALSE),
      Method("put_group", "user", "PUT", "/v1/groups/{}", 1, "obj", "surf", FALSE),
      Method("delete_group", "user", "DELETE", "/v1/groups/{}", 1, "unit", "surf", FALSE),
      Method("get_group_users", "user", "GET", "/v1/groups/{}/users", 1, "list", "surf", FALSE),
      Method("put_group_user", "user", "PUT", "/v1/groups/{}/users/{}", 2, "unit", "surf", FALSE),
      Method("delete_group_user", "user", "DELETE", "/v1/groups/{}/users/{}", 2, "unit", "surf", FALSE) }

PageMethods ==
    { Method("get_pages", "dashboard", "GET", "/v1/pages", 0, "list", "reqwest", FALSE),
      Method("post_page", "dashboard", "POST", "/v1/pages", 0, "obj", "reqwest", FALSE),
      Method("get_page", "dashboard", "GET", "/v1/pages/{}", 1, "obj", "reqwest", FALSE),
      Method("put_page", "dashboard", "PUT", "/v1/pages/{}", 1, "obj", "reqwest", FALSE),
      Method("delete_page", "dashboard", "DELETE", "/v1/pages/{}", 1, "unit", "reqwest", FALSE),
      Method("get_page_collections", "dashboard", "GET", "/v1/pages/{}/collections", 1, "list", "reqwest", FALSE),
      Method("post_page_collection", "dashboard", "POST", "/v1/pages/{}/collections", 1, "obj", "reqwest", FALSE),
      Method("put_page_collection", "dashboard", "PUT", "/v1/pages/{}/collections/{}", 2, "unit", "reqwest", FALSE),
      Method("delete_page_collection", "dashboard", "DELETE", "/v1/pages/{}/collections/{}", 2, "unit", "reqwest", FALSE) }

StreamMethods ==
    { Method("get_streams", "data", "GET", "/v1/streams", 0, "list", "surf", FALSE),
      Method("get_stream_search_dataset_id", "data", "GET", "/v1/streams/search", 0, "list", "surf", FALSE),
      Method("get_stream_search_dataset_owner_id", "data", "GET", "/v1/streams/search", 0, "list", "surf", FALSE),
      Method("post_stream", "data", "POST", "/v1/streams", 0, "obj", "surf", FALSE),
      Method("get_stream", "data", "GET", "/v1/streams/{}", 1, "obj", "surf", FALSE),
      Method("patch_stream", "data", "PATCH", "/v1/streams/{}", 1, "obj", "surf", FALSE),
      Method("delete_stream", "data", "DELETE", "/v1/streams/{}", 1, "unit", "surf", FALSE),
      Method("get_stream_execution", "data", "GET", "/v1/streams/{}/executions/{}", 2, "obj", "surf", FALSE),
      Method("post_stream_execution", "data", "POST", "/v1/streams/{}/executions", 1, "obj", "surf", FALSE),
      Method("get_stream_executions", "data", "GET", "/v1/streams/{}/executions", 1, "list", "surf", FALSE),
      Method("put_stream_execution_part", "data", "PUT", "/v1/streams/{}/executions/{}/part/{}", 3, "obj", "surf", TRUE),
      Method("put_stream_execution_commit", "data", "PUT", "/v1/streams/{}/executions/{}/commit", 2, "obj", "surf", FALSE),
      Method("put_stream_execution_abort", "data", "PUT", "/v1/streams/{}/executions/{}/abort", 2, "unit", "surf", FALSE) }

UserMethods ==
    { Method("get_users", "user", "GET", "/v1/users", 0, "list", "surf", FALSE),
      Method("post_bulk_user_emails", "user", "POST", "/v1/users/bulk/emails", 0, "list", "surf", FALSE),
      Method("post_user", "user", "POST", "/v1/users", 0, "obj", "surf", FALSE),
      Method("get_user", "user", "GET", "/v1/users/{}", 1, "obj", "surf", FALSE),
      Method("put_user", "user", "PUT", "/v1/users/{}", 1, "obj", "surf", FALSE),
      Method("delete_user", "user", "DELETE", "/v1/users/{}", 1, "unit", "surf", FALSE) }

WorkflowMethods ==
    { Method("get_projects", "workflow", "GET", "/v1/projects/", 0, "list", "surf", FALSE),
      Method("post_project", "workflow", "POST", "/v1/projects", 0, "obj", "surf", FALSE),
      Method("get_project", "workflow", "GET", "/v1/projects/{}", 1, "obj", "surf", FALSE),
      Method("put_project", "workflow", "PUT", "/v1/projects/{}", 1, "obj", "surf", FALSE),
      Method("delete_project", "workflow", "DELETE", "/v1/projects/{}", 1, "unit", "surf", FALSE),
      Method("get_project_members", "workflow", "GET", "/v1/projects/{}/members", 1, "list", "surf", FALSE),
      Method("put_project_members", "workflow", "PUT", "/v1/projects/{}/members", 1, "unit", "surf", FALSE),
      Method("get_project_lists", "workflow", "GET", "/v1/projects/{}/lists", 1, "list", "surf", FALSE),
      Method("post_project_list", "workflow", "POST", "/v1/projects/{}/lists", 1, "obj", "surf", FALSE),
      Method("get_project_list", "workflow", "GET", "/v1/projects/{}/lists/{}", 2, "obj", "surf", FALSE),
      Method("put_project_list", "workflow", "PUT", "/v1/projects/{}/lists/{}", 2, "obj", "surf", FALSE),
      Method("delete_project_list", "workflow", "DELETE", "/v1/projects/{}/lists/{}", 2, "unit", "surf", FALSE),
      Method("get_project_tasks", "workflow", "GET", "/v1/projects/{}/tasks", 1, "list", "surf", FALSE),
      Method("get_project_list_tasks", "workflow", "GET", "/v1/projects/{}/lists/{}/tasks", 2, "list", "surf", FALSE),
      Method("post_project_list_task", "workflow", "POST", "/v1/projects/{}/lists/{}/tasks", 2, "obj", "surf", FALSE),
      Method("get_project_list_task", "workflow", "GET", "/v1/projects/{}/lists/{}/tasks/{}", 3, "obj", "surf", FALSE),
      Method("put_project_list_task", "workflow", "PUT", "/v1/projects/{}/lists/{}/tasks/{}", 3, "obj", "surf", FALSE),
      Method("delete_project_list_task", "workflow", "DELETE", "/v1/projects/{}/lists/{}/tasks/{}", 3, "unit", "surf", FALSE),
      Method("get_project_list_task_attachments", "workflow", "GET", "/v1/projects/{}/lists/{}/tasks/{}/attachments", 3, "list", "surf", FALSE),
      Method("get_project_list_task_attachment", "workflow", "GET", "/v1/projects/{}/lists/{}/tasks/{}/attachments/{}", 4, "bytes", "surf", FALSE),
      Method("post_project_list_task_attachment", "workflow", "POST", "/v1/projects/{}/lists/{}/tasks/{}/attachments", 3, "obj", "surf", FALSE),
      Method("delete_project_list_task_attachment", "workflow", "DELETE", "/v1/projects/{}/lists/{}/tasks/{}/attachments/{}", 4, "unit", "surf", FALSE) }

Methods ==
    AccountMethods \cup ActivityMethods \cup BuzzMethods \cup DataSetMethods
        \cup GroupMethods \cup PageMethods \cup StreamMethods \cup UserMethods
        \cup WorkflowMethods

MethodNamed(n) == CHOOSE m \in Methods : m.name = n

\* --------------------------------------------------- HTTP responses, bodies
\* A body is abstracted to what the decoders look at: its JSON shape
\* (empty = zero bytes, garbage = not JSON), the status and message fields of
\* a JSON object, its access_token field (a string or some other JSON value),
\* and its payload: the records of an array, or the one record of an object,
\* each record abstracted to its optional id field.
Body(shape, status, message, token, items) ==
    [shape |-> shape, status |-> status, message |-> message,
     token |-> token, items |-> items]

EmptyBody == Body("empty", None, None, None, <<>>)
GarbageBody == Body("garbage", None, None, None, <<>>)
NullBody == Body("null", None, None, None, <<>>)
ErrBody(s, msg) == Body("object", Some(s), Some(msg), None, <<None>>)
PartialErrBody == Body("object", Some(403), None, None, <<None>>)
ObjBody(id) == Body("object", None, None, None, <<id>>)
ArrayBody(items) == Body("array", None, None, None, items)
TokenBody(t) ==
    Body("object", None, None, Some([str |-> TRUE, v |-> t]), <<None>>)
NonStringTokenBody ==
    Body("object", None, None, Some([str |-> FALSE, v |-> ""]), <<None>>)

\* transport = FALSE: no response at all (connection, TLS or DNS failure)
Response(status, body) == [transport |-> TRUE, status |-> status, body |-> body]
TransportFailure == [transport |-> FALSE, status |-> 0, body |-> EmptyBody]

\* http_types::StatusCode::is_success
is_success(status) == status >= 200 /\ status <= 299

\* reqwest::Response::error_for_status: an error for 4xx and 5xx only
error_for_status(status) == status >= 400 /\ status <= 599

\* ----------------------------------------------------------- Result<T, E>
\* err: PubAPIError (the decoded error body), Transport, Decode (the body
\* did not parse), HttpStatus (reqwest's status error), Io (a file).
Ok(v) == [ok |-> TRUE, err |-> "none", status |-> 0, message |-> "", val |-> v]
Err(kind, status, message) ==
    [ok |-> FALSE, err |-> kind, status |-> status, message |-> message,
     val |-> <<>>]

\* serde_json into PubAPIError: status and message are required fields
PubAPIError(b) ==
    IF b.shape = "object" /\ IsSome(b.status) /\ IsSome(b.message)
    THEN Err("PubAPIError", b.status[1], b.message[1])
    ELSE Err("Decode", 0, "")

\* a 2xx body that is not of the type tried as the error object
body_json_apierror(ret, b) ==
    CASE ret = "unit" ->
            IF b.shape = "null" THEN Ok(<<>>) ELSE PubAPIError(b)
      [] ret = "obj" ->
            IF b.shape = "object" THEN Ok(b.items) ELSE PubAPIError(b)
      [] ret = "list" ->
            IF b.shape = "array" THEN Ok(b.items) ELSE PubAPIError(b)
      [] ret = "wrapped" ->
            IF b.shape = "object" THEN Ok(<<>>) ELSE PubAPIError(b)
      [] OTHER -> Ok(b.items)

\* body_json::<T>() for the type a method returns on success
body_json(ret, b) ==
    CASE ret = "unit" ->
            IF b.shape = "null" THEN Ok(<<>>) ELSE Err("Decode", 0, "")
      [] ret = "obj" ->
            IF b.shape = "object" THEN Ok(b.items) ELSE Err("Decode", 0, "")
      [] ret = "list" ->
            IF b.shape = "array" THEN Ok(b.items) ELSE Err("Decode", 0, "")
      [] ret = "wrapped" ->
            IF b.shape = "object" THEN Ok(<<>>) ELSE Err("Decode", 0, "")
      [] OTHER -> Ok(b.items)

\* The tail of every method written against surf, from the response on.
SurfResult(m, resp) ==
    IF ~resp.transport THEN Err("Transport", 0, "")
    ELSE IF ~is_success(resp.status) THEN PubAPIError(resp.body)
    ELSE body_json(m.ret, resp.body)

\* The tail of the page methods: .send()?.error_for_status()?.json()?, or
\* Ok(()) without reading the body.
ReqwestResult(m, resp) ==
    IF ~resp.transport THEN Err("Transport", 0, "")
    ELSE IF error_for_status(resp.status) THEN Err("HttpStatus", resp.status, "")
    ELSE IF m.ret = "unit" THEN Ok(<<>>)
    ELSE body_json(m.ret, resp.body)

\* The tail of post_buzz_message and post_dataset_json: .await?; Ok(()):
\* the response is dropped unread
PostResult(m, resp) ==
    IF ~resp.transport THEN Err("Transport", 0, "") ELSE Ok(<<>>)

MethodResult(m, resp) ==
    IF m.style = "surf" THEN SurfResult(m, resp)
    ELSE IF m.style = "post" THEN PostResult(m, resp)
    ELSE ReqwestResult(m, resp)

\* the status of the token response never looked at
get_access_token_nostatus(resp) ==
    IF ~resp.transport
    THEN [tag |-> "Err", at |-> "", e |-> Err("Transport", 0, "")]
    ELSE IF resp.body.shape \notin {"null", "object", "array"}
    THEN [tag |-> "Err", at |-> "", e |-> Err("Decode", 0, "")]
    ELSE IF resp.body.shape = "object" /\ IsSome(resp.body.token)
            /\ resp.body.token[1].str
    THEN [tag |-> "Ok", at |-> "Bearer " \o resp.body.token[1].v, e |-> Ok(<<>>)]
    ELSE [tag |-> "Panic", at |-> "", e |-> Ok(<<>>)]

\* the access_token handed back as it came, without Bearer in front
get_access_token_bare(resp) ==
    IF ~resp.transport
    THEN [tag |-> "Err", at |-> "", e |-> Err("Transport", 0, "")]
    ELSE IF ~is_success(resp.status)
    THEN [tag |-> "Err", at |-> "", e |-> PubAPIError(resp.body)]
    ELSE IF resp.body.shape \notin {"null", "object", "array"}
    THEN [tag |-> "Err", at |-> "", e |-> Err("Decode", 0, "")]
    ELSE IF resp.body.shape = "object" /\ IsSome(resp.body.token)
            /\ resp.body.token[1].str
    THEN [tag |-> "Ok", at |-> resp.body.token[1].v, e |-> Ok(<<>>)]
    ELSE [tag |-> "Panic", at |-> "", e |-> Ok(<<>>)]

\* a missing access_token handed back as an error instead of unwrapped
get_access_token_lenient(resp) ==
    IF ~resp.transport
    THEN [tag |-> "Err", at |-> "", e |-> Err("Transport", 0, "")]
    ELSE IF ~is_success(resp.status)
    THEN [tag |-> "Err", at |-> "", e |-> PubAPIError(resp.body)]
    ELSE IF resp.body.shape = "object" /\ IsSome(resp.body.token)
            /\ resp.body.token[1].str
    THEN [tag |-> "Ok", at |-> "Bearer " \o resp.body.token[1].v, e |-> Ok(<<>>)]
    ELSE [tag |-> "Err", at |-> "", e |-> Err("Decode", 0, "")]

\* Client::get_access_token from the token response on: tag Ok carries the
\* Authorization value, tag Err the error returned, tag Panic is the unwrap
\* of a missing or non-string access_token.
get_access_token(resp) ==
    IF ~resp.transport
    THEN [tag |-> "Err", at |-> "", e |-> Err("Transport", 0, "")]
    ELSE IF ~is_success(resp.status)
    THEN [tag |-> "Err", at |-> "", e |-> PubAPIError(resp.body)]
    ELSE IF resp.body.shape \notin {"null", "object", "array"}
    THEN [tag |-> "Err", at |-> "", e |-> Err("Decode", 0, "")]
    ELSE IF resp.body.shape = "object" /\ IsSome(resp.body.token)
            /\ resp.body.token[1].str
    THEN [tag |-> "Ok", at |-> "Bearer " \o resp.body.token[1].v, e |-> Ok(<<>>)]
    ELSE [tag |-> "Panic", at |-> "", e |-> Ok(<<>>)]

\* ------------------------------------------------------------- the server
Statuses == {200, 204, 302, 403, 500}
ErrBodies == {ErrBody(403, "Forbidden"), ErrBody(500, "Internal Server Error")}
ObjIds == {None, Some(1), Some(2)}

\* A page of n records as the server lays it out from an offset, in
\* ascending or descending id order.
Items(off, n, desc) ==
    [i \in 1..n |-> Some(IF desc THEN off + n + 1 - i ELSE off + i)]

\* page lengths and orders the server answers a paged listing with: empty,
\* short, one short of full, full, and one more than asked for
PageShapes ==
    { <<0, FALSE>>, <<23, FALSE>>, <<23, TRUE>>, <<PageSize - 1, FALSE>>,
      <<PageSize, FALSE>>, <<PageSize, TRUE>>, <<PageSize + 1, FALSE>> }

RECURSIVE SeqsUpTo(_, _)
SeqsUpTo(S, n) ==
    IF n = 0 THEN { <<>> }
    ELSE LET shorter == SeqsUpTo(S, n - 1)
         IN shorter \cup { Append(s, x) : s \in shorter, x \in S }

\* collection lists of a page: ids absent, equal to or different from the
\* one asked for
CollectionLists == SeqsUpTo({None, Some(1), Some(2), Some(3)}, MaxCollections)

ArrayBodies(c) ==
    IF c.m.name = "get_page_collections"
    THEN { ArrayBody(l) : l \in CollectionLists }
    ELSE IF c.m.ret = "list"
    THEN { ArrayBody(Items(IF IsSome(c.off) THEN c.off[1] ELSE 0, p[1], p[2])) :
             p \in PageShapes }
    ELSE { ArrayBody(<<>>), ArrayBody(<<Some(1)>>) }

ResourceResponses(c) ==
    { TransportFailure }
        \cup { Response(s, b) :
                 s \in Statuses,
                 b \in { EmptyBody, GarbageBody, NullBody, PartialErrBody }
                         \cup ErrBodies \cup { ObjBody(id) : id \in ObjIds }
                         \cup ArrayBodies(c) }

\* the n-th token the server issues
TokenFor(n) == "t" \o ToString(n)

TokenResponses(n) ==
    { TransportFailure }
        \cup { Response(s, b) :
                 s \in Statuses,
                 b \in { TokenBody(TokenFor(n)), NonStringTokenBody, ObjBody(None),
                         NullBody, ArrayBody(<<>>), EmptyBody, GarbageBody,
                         PartialErrBody } \cup ErrBodies }


\* ------------------------------------------------------- account create
\* longest property list of an account type's template
MaxProperties == 2

\* Account::template(): the object account create starts from
Account_template ==
    [id |-> Some("0"), name |-> Some("Account Name"), valid |-> Some(TRUE),
     account_type |-> None]

Property(name, prompt, required) ==
    [name |-> name, prompt |-> prompt, required |-> required]

\* properties a template lists: required or not, two of the same name, and
\* ones the server sent without a name or without a prompt
Properties ==
    { Property(Some("user"), Some("Enter user"), Some(TRUE)),
      Property(Some("user"), Some("Enter login"), Some(FALSE)),
      Property(Some("password"), Some("Enter password"), None),
      Property(None, Some("Enter user"), Some(TRUE)),
      Property(Some("token"), None, Some(TRUE)) }

\* AccountTemplate, its fields other than properties left out
AccountTemplate(properties) == [properties |-> properties]

AccountTemplates ==
    { AccountTemplate(None) }
        \cup { AccountTemplate(Some(ps)) : ps \in SeqsUpTo(Properties, MaxProperties) }

\* a HashMap<String, V> is a function from the keys it holds
EmptyMap == [k \in {} |-> ""]

Singleton(k, v) == [n \in {k} |-> v]

\* HashMap::insert keeping the value a key already has
insert_keep(m, k, v) ==
    [n \in DOMAIN m \cup {k} |-> IF n \in DOMAIN m THEN m[n] ELSE v]

\* HashMap::insert: a key already there gets the new value
insert(m, k, v) == [n \in DOMAIN m \cup {k} |-> IF n = k THEN v ELSE m[n]]

contains_key(m, k) == k \in DOMAIN m

AccountType(properties, templates) ==
    [properties |-> properties, templates |-> templates]

\* the _templates maps the server sends: none, empty, without a default
\* template, only the default one, the default one among others
TemplateMaps ==
    { EmptyMap, Singleton("custom", AccountTemplate(Some(<<>>))) }
        \cup { Singleton("default", t) : t \in AccountTemplates }
        \cup { insert(Singleton("custom", AccountTemplate(None)), "default", t) :
                 t \in AccountTemplates }

\* the account types get_account_type decodes from a 2xx object body
AccountTypes ==
    { AccountType(p, t) :
        p \in { None, Some(Singleton("old", "value")) },
        t \in { None } \cup { Some(m) : m \in TemplateMaps } }

\* format!("TODO: {}", prompt)
todo(prompt) == "TODO: " \o prompt

\* the loop of account create over the default template's properties, from
\* the i-th on: each unwrap of a missing name or prompt panics
RECURSIVE prepop(_, _, _)
prepop(ps, i, properties) ==
    IF i > Len(ps) THEN [panic |-> FALSE, properties |-> properties]
    ELSE IF IsNone(ps[i].name) \/ IsNone(ps[i].prompt)
    THEN [panic |-> TRUE, properties |-> properties]
    ELSE prepop(ps, i + 1, insert(properties, ps[i].name[1], todo(ps[i].prompt[1])))

\* account create: pre-pop the property fields from the default template
seed(at) ==
    IF IsNone(at.templates) \/ ~contains_key(at.templates[1], "default")
    THEN [panic |-> FALSE, at |-> at]
    ELSE LET t == at.templates[1]["default"]
         IN IF IsNone(t.properties) THEN [panic |-> TRUE, at |-> at]
            ELSE LET p == prepop(t.properties[1], 1, EmptyMap)
                 IN IF p.panic THEN [panic |-> TRUE, at |-> at]
                    ELSE [panic |-> FALSE,
                          at |-> [at EXCEPT !.properties = Some(p.properties)]]

\* ------------------------------------------------------------- edit_obj
\* One run of util::edit_obj: whether the temporary file could be written,
\* what the editor did (none: it was not reached; nostart: it could not be
\* spawned; exit0, exit1: it
\* ran and exited with that code), whether the file could be read back, and
\* what its content parses into (None: it does not parse).
EditRun(written, editor, readback, parsed) ==
    [written |-> written, editor |-> editor, readback |-> readback,
     parsed |-> parsed]

\* edit_obj not called so far
NoEdit == EditRun(FALSE, "idle", FALSE, None)

EditRuns ==
    { EditRun(FALSE, "none", FALSE, None), EditRun(TRUE, "nostart", FALSE, None) }
        \cup { EditRun(TRUE, e, FALSE, None) : e \in {"exit0", "exit1"} }
        \cup { EditRun(TRUE, e, TRUE, p) :
                 e \in {"exit0", "exit1"},
                 p \in { None } \cup { Some(<<id>>) : id \in ObjIds } }

\* edit_obj handing back the object it was given when the file does not
\* parse
edit_obj_lenient(run) ==
    IF ~run.written THEN Err("Io", 0, "")
    ELSE IF run.editor = "nostart" THEN Err("Io", 0, "")
    ELSE IF ~run.readback THEN Err("Io", 0, "")
    ELSE IF IsNone(run.parsed) THEN Ok(<<None>>)
    ELSE Ok(run.parsed[1])

\* util::edit_obj: File::create/write_all/sync_all?, Command::status()?
\* (an error only when the editor cannot be started; the exit status is
\* dropped), read_to_string?, serde_yaml::from_str?
edit_obj(run) ==
    IF ~run.written THEN Err("Io", 0, "")
    ELSE IF run.editor = "nostart" THEN Err("Io", 0, "")
    ELSE IF ~run.readback THEN Err("Io", 0, "")
    ELSE IF IsNone(run.parsed) THEN Err("Decode", 0, "")
    ELSE Ok(run.parsed[1])
\* ---------------------------------------------------------------- state
VARIABLES
    cmd,        \* the command line of this invocation
    dc,         \* the Client: host, client_id, client_secret
    pc,         \* where execute() is: start, await, edit, done, panic
    call,       \* the client method call in progress or just returned
    ncalls,     \* client method calls made so far
    log,        \* every HTTP request sent, in order
    offset,     \* list-all: let mut offset
    r,          \* list-all: the aggregator r
    pages,      \* the lists received so far, in order: list-all's pages, or
                \* the collections update-collection listed
    editObj,    \* the object handed to the edit step
    out,        \* what was rendered on stdout
    panicMsg,   \* why the invocation panicked
    account,    \* account create: let mut r = Account::template()
    accountType,\* account create: the AccountType get_account_type returned
    edit,       \* what happened inside the last edit_obj
    inflight,   \* the requests sent and not yet answered, by position in log
    dtype,      \* serde: a data model type
    dval,       \* serde: a value of that type
    djson,      \* serde: a JSON object
    dback,      \* serde: what deserializing djson gave
    csvText,    \* export: the CSV text get_dataset_data returned, r
    csvTemplate,\* export: the --template given
    csvPos,     \* export: where the csv reader rdr stands in the text
    csvAggr,    \* export: aggr
    csvOut,     \* export: what was printed
    csvPc,      \* export: where csv_template_output is
    file,       \* the staging file of edit_obj in the temp directory
    proc        \* the invocations sharing that temp directory

cliVars ==
    <<cmd, dc, pc, call, ncalls, log, offset, r, pages, editObj, out, panicMsg,
      account, accountType, edit, inflight>>

serdeVars == <<dtype, dval, djson, dback>>

csvVars == <<csvText, csvTemplate, csvPos, csvAggr, csvOut, csvPc>>

fileVars == <<file, proc>>

auxVars == <<serdeVars, csvVars, fileVars>>

vars == <<cliVars, auxVars>>

\* ------------------------------------------------------------- commands
\* ids given on the command line, one per id the path embeds
PathIds(n) == [i \in 1..n |-> 6 + i]

\* retrieve, edit, write: the update command of every resource family
UpdateCommands ==
    { <<"get_account", "patch_account">>, <<"get_dataset", "put_dataset">>,
      <<"get_dataset_policy", "put_dataset_policy">>, <<"get_group", "put_group">>,
      <<"get_page", "put_page">>, <<"get_stream", "patch_stream">>,
      <<"get_user", "put_user">>, <<"get_project", "put_project">>,
      <<"get_project_list", "put_project_list">>,
      <<"get_project_list_task", "put_project_list_task">> }

ListAllCommands == { "get_datasets", "get_streams", "get_users" }

\* template, edit, write: the create commands
CreateCommands ==
    { "post_integration", "post_integration_subscription", "post_dataset",
      "post_dataset_policy", "post_group", "post_page", "post_page_collection",
      "post_stream", "post_user", "post_project", "post_project_list",
      "post_project_list_task" }

Command(op, m, w, cid, fileOk) ==
    [op |-> op, m |-> m, w |-> w, ids |-> PathIds(m.nids), cid |-> cid,
     fileOk |-> fileOk]

Commands ==
    { Command("Single", m, m, 0, TRUE) : m \in Methods }
        \cup { Command("Single", m, m, 0, FALSE) : m \in { x \in Methods : x.file } }
        \cup { Command("ListAll", MethodNamed(n), MethodNamed(n), 0, TRUE) :
                 n \in ListAllCommands }
        \cup { Command("Update", MethodNamed(p[1]), MethodNamed(p[2]), 0, TRUE) :
                 p \in UpdateCommands }
        \cup { Command("Create", MethodNamed(n), MethodNamed(n), 0, TRUE) :
                 n \in CreateCommands }
        \cup { Command("AccountCreate", MethodNamed("get_account_type"),
                       MethodNamed("post_account"), 0, TRUE) }
        \cup { Command("UpdateCollection", MethodNamed("get_page_collections"),
                       MethodNamed("put_page_collection"), cid, TRUE) :
                 cid \in {2, 3} }

\* the commands that print the value their last call returned
Renders(c) ==
    /\ c.w.ret # "unit"
    /\ c.w.name # "put_stream_execution_part"

\* ------------------------------------------------------------- requests
\* Client::new
Client_new(host, client_id, client_secret) ==
    [host |-> host, client_id |-> client_id, client_secret |-> client_secret]

\* the --host, --clientid and --clientsecret an invocation is given
Clients ==
    { Client_new("https://api.domo.com", "id1", "secret1"),
      Client_new("https://domo.example", "id2", "secret2") }

\* base64::encode, kept as a text that shows what was encoded
base64_encode(s) == "base64(" \o s \o ")"

Request(kind, verb, route, ids, grant, scope, auth, lim, off, payload, n) ==
    [kind |-> kind, host |-> dc.host, verb |-> verb, route |-> route, ids |-> ids,
     grant_type |-> grant, scope |-> scope, auth |-> auth, lim |-> lim,
     off |-> off, payload |-> payload, call |-> n]

\* every token asked for with the one scope "data"
TokenRequest_data(scope, n) ==
    Request("token", "GET", "/oauth/token", <<>>, "client_credentials", "data",
            "Basic " \o base64_encode(dc.client_id \o ":" \o dc.client_secret),
            None, None, <<>>, n)

\* GET {host}/oauth/token?grant_type=client_credentials&scope=... with
\* Authorization: Basic base64(client_id:client_secret)
TokenRequest(scope, n) ==
    Request("token", "GET", "/oauth/token", <<>>, "client_credentials", scope,
            "Basic " \o base64_encode(dc.client_id \o ":" \o dc.client_secret),
            None, None, <<>>, n)

\* the first token of the invocation kept and sent with every request
ResourceRequest_cached(c, at, n) ==
    Request("resource", c.m.verb, c.m.route, c.ids, "", c.m.scope,
            "Bearer " \o "t1", c.lim, c.off, c.payload, n)

\* a client that numbers the parts itself, in the order they are uploaded
ResourceRequest_sequenced(c, at, n) ==
    Request("resource", c.m.verb, c.m.route,
            IF c.m.name = "put_stream_execution_part"
            THEN <<c.ids[1], c.ids[2],
                   1 + Cardinality({ i \in DOMAIN log :
                                       /\ log[i].kind = "resource"
                                       /\ log[i].route = c.m.route })>>
            ELSE c.ids,
            "", c.m.scope, at, c.lim, c.off, c.payload, n)

\* the request a method sends once it holds the Authorization value at
ResourceRequest(c, at, n) ==
    Request("resource", c.m.verb, c.m.route, c.ids, "", c.m.scope, at, c.lim,
            c.off, c.payload, n)

\* a request handed to the HTTP client: the future is pending
send(pending, i) == pending \cup {i}

\* .await came back with the response to request i
received(pending, i) == pending \ {i}

\* no export under way
CsvIdle ==
    /\ csvText = <<>>
    /\ csvTemplate = "none"
    /\ csvPos = 0
    /\ csvAggr = <<>>
    /\ csvOut = None
    /\ csvPc = "idle"

\* no staging file yet, no invocation in its edit step
FileIdle ==
    /\ file = None
    /\ proc = <<>>

\* no serde conversion under way
SerdeIdle ==
    /\ dtype = "none"
    /\ dval = None
    /\ djson = None
    /\ dback = None

NoCall ==
    [m |-> MethodNamed("get_accounts"), ids |-> <<>>, lim |-> None, off |-> None,
     payload |-> <<>>, stage |-> "none", at |-> "", tokResp |-> None,
     resp |-> None, ret |-> Ok(<<>>)]

\* no command under way
CliIdle ==
    /\ cmd = Command("Single", MethodNamed("get_accounts"),
                     MethodNamed("get_accounts"), 0, TRUE)
    /\ dc = Client_new("https://api.domo.com", "id1", "secret1")
    /\ pc = "none"
    /\ call = NoCall
    /\ ncalls = 0
    /\ log = <<>>
    /\ offset = 0
    /\ r = <<>>
    /\ pages = <<>>
    /\ editObj = None
    /\ out = None
    /\ panicMsg = ""
    /\ account = None
    /\ accountType = None
    /\ edit = NoEdit
    /\ inflight = {}

Init ==
    /\ cmd \in Commands
    /\ dc \in Clients
    /\ pc = "start"
    /\ call = NoCall
    /\ ncalls = 0
    /\ log = <<>>
    /\ offset = 0
    /\ r = <<>>
    /\ pages = <<>>
    /\ editObj = None
    /\ out = None
    /\ panicMsg = ""
    /\ account = None
    /\ accountType = None
    /\ edit = NoEdit
    /\ inflight = {}
    /\ SerdeIdle
    /\ CsvIdle
    /\ FileIdle

\* ------------------------------------------------------ a client call
\* Entering a client method: its first statement is get_access_token, which
\* sends the token request and awaits the answer.
Invoke(m, ids, lim, off, payload) ==
    /\ ncalls' = ncalls + 1
    /\ call' = [m |-> m, ids |-> ids, lim |-> lim, off |-> off,
                payload |-> payload, stage |-> "token", at |-> "",
                tokResp |-> None, resp |-> None, ret |-> Ok(<<>>)]
    /\ log' = Append(log, TokenRequest(m.scope, ncalls + 1))
    /\ inflight' = send(inflight, Len(log) + 1)
    /\ pc' = "await"

\* a client that remembers the commits it sent and refuses the next commit
\* of the same execution as too soon
AfterToken_throttled(c, t, fileOk) ==
    IF t.tag = "Err" THEN [sent |-> FALSE, stage |-> "returned", ret |-> t.e]
    ELSE IF /\ c.m.name = "put_stream_execution_commit"
            /\ \E i \in DOMAIN log :
                  /\ log[i].kind = "resource"
                  /\ log[i].route = c.m.route
                  /\ log[i].ids = c.ids
    THEN [sent |-> FALSE, stage |-> "returned", ret |-> Err("TooSoon", 0, "")]
    ELSE IF c.m.file /\ ~fileOk
    THEN [sent |-> FALSE, stage |-> "returned", ret |-> Err("Io", 0, "")]
    ELSE [sent |-> TRUE, stage |-> "resource", ret |-> Ok(<<>>)]

\* the error of get_access_token dropped and the request sent all the same
AfterToken_sendanyway(c, t, fileOk) ==
    IF c.m.file /\ ~fileOk
    THEN [sent |-> FALSE, stage |-> "returned", ret |-> Err("Io", 0, "")]
    ELSE [sent |-> TRUE, stage |-> "resource", ret |-> Ok(<<>>)]

\* What the method does with the outcome t of get_access_token: the ? ends
\* the call on an error; otherwise the request is built (the part upload
\* reads its file here) and sent.
AfterToken(c, t, fileOk) ==
    IF t.tag = "Err" THEN [sent |-> FALSE, stage |-> "returned", ret |-> t.e]
    ELSE IF c.m.file /\ ~fileOk
    THEN [sent |-> FALSE, stage |-> "returned", ret |-> Err("Io", 0, "")]
    ELSE [sent |-> TRUE, stage |-> "resource", ret |-> Ok(<<>>)]

\* the failure dropped and the command ended as if it had gone through
Panic_ignored(msg) ==
    /\ pc' = "done"
    /\ panicMsg' = msg

\* .unwrap() on an Err or a None, and panic!: the process ends there
Panic(msg) ==
    /\ pc' = "panic"
    /\ panicMsg' = msg

TokenResponse ==
    /\ pc = "await"
    /\ call.stage = "token"
    /\ \E resp \in TokenResponses(ncalls) :
         LET t == get_access_token(resp)
             a == AfterToken(call, t, cmd.fileOk)
         IN IF t.tag = "Panic"
            THEN /\ Panic("called Option::unwrap() on a None value")
                 /\ call' = [call EXCEPT !.stage = "panicked", !.tokResp = Some(resp)]
                 /\ inflight' = received(inflight, Len(log))
                 /\ UNCHANGED log
            ELSE /\ call' = [call EXCEPT !.stage = a.stage, !.tokResp = Some(resp),
                                         !.at = t.at, !.ret = a.ret]
                 /\ log' = IF a.sent
                           THEN Append(log, ResourceRequest(call, t.at, ncalls))
                           ELSE log
                 /\ inflight' = IF a.sent
                                THEN send(received(inflight, Len(log)), Len(log) + 1)
                                ELSE received(inflight, Len(log))
                 /\ UNCHANGED <<pc, panicMsg>>
    /\ UNCHANGED <<cmd, dc, ncalls, offset, r, pages, editObj, out, account, accountType, edit>>
    /\ UNCHANGED auxVars

ResourceResponse ==
    /\ pc = "await"
    /\ call.stage = "resource"
    /\ \E resp \in ResourceResponses(call) :
         call' = [call EXCEPT !.stage = "returned", !.resp = Some(resp),
                              !.ret = MethodResult(call.m, resp)]
    /\ inflight' = received(inflight, Len(log))
    /\ UNCHANGED <<cmd, dc, pc, ncalls, log, offset, r, pages, editObj, out, panicMsg, account, accountType, edit>>
    /\ UNCHANGED auxVars

\* ------------------------------------------------------------- execute()
\* a command that goes on without awaiting the call it started
Returned_eager == pc = "await"

\* dc.method(..).await has come back
Returned == pc = "await" /\ call.stage = "returned"

\* The command up to its first client call: list-all asks for the first
\* page, account create makes its template and fetches the account type,
\* the other create commands go to the editor with their template.
Start ==
    /\ pc = "start"
    /\ CASE cmd.op = "ListAll" ->
               /\ Invoke(cmd.m, cmd.ids, Some(PageSize), Some(offset), <<>>)
               /\ UNCHANGED <<editObj, account>>
         [] cmd.op = "Create" ->
               /\ pc' = "edit"
               /\ editObj' = Some(<<None>>)
               /\ UNCHANGED <<call, ncalls, log, account, inflight>>
         [] cmd.op = "AccountCreate" ->
               /\ account' = Some(Account_template)
               /\ Invoke(cmd.m, cmd.ids, None, None, <<>>)
               /\ UNCHANGED editObj
         [] OTHER ->
               /\ Invoke(cmd.m, cmd.ids, None, None, <<>>)
               /\ UNCHANGED <<editObj, account>>
    /\ UNCHANGED <<cmd, dc, offset, r, pages, out, panicMsg, accountType, edit>>
    /\ UNCHANGED auxVars

\* account create, from the return of get_account_type(..).unwrap() to the
\* edit step: the default template's properties replace the type's, and the
\* type goes into the account
AccountTypeFetched ==
    /\ Returned
    /\ cmd.op = "AccountCreate"
    /\ call.m = cmd.m
    /\ IF ~call.ret.ok
       THEN /\ Panic("called Result::unwrap() on an Err value")
            /\ UNCHANGED <<account, accountType, editObj>>
       ELSE \E at \in AccountTypes :
              LET s == seed(at)
              IN /\ accountType' = Some(at)
                 /\ IF s.panic
                    THEN /\ Panic("called Option::unwrap() on a None value")
                         /\ UNCHANGED <<account, editObj>>
                    ELSE /\ account' =
                              Some([account[1] EXCEPT !.account_type = Some(s.at)])
                         /\ editObj' = account'
                         /\ pc' = "edit"
                         /\ UNCHANGED panicMsg
    /\ UNCHANGED <<cmd, dc, call, ncalls, log, offset, r, pages, out, edit>>
    /\ UNCHANGED inflight
    /\ UNCHANGED auxVars

\* list, retrieve, delete and the other one-call commands:
\* dc.method(..).await.unwrap(), then the output helper if there is a value
SingleReturn ==
    /\ Returned
    /\ cmd.op = "Single"
    /\ IF call.ret.ok
       THEN /\ pc' = "done"
            /\ out' = IF Renders(cmd) THEN Some(call.ret.val) ELSE None
            /\ UNCHANGED panicMsg
       ELSE /\ Panic("called Result::unwrap() on an Err value")
            /\ UNCHANGED out
    /\ UNCHANGED <<cmd, dc, call, ncalls, log, offset, r, pages, editObj, account, accountType, edit>>
    /\ UNCHANGED inflight
    /\ UNCHANGED auxVars

\* a page of exactly 50 records taken for the last one
last_page_le(ret) == Len(ret) <= PageSize

\* an empty page not taken for the last one
last_page_nonempty(ret) == Len(ret) < PageSize /\ Len(ret) > 0

\* a loop that gives up after its second page
last_page_capped(ret) == Len(ret) < PageSize \/ Len(pages) >= 1

\* list-all: if ret.len() < 50 { b = true; }
last_page(ret) == Len(ret) < PageSize

\* the page put in front of the aggregate
append_front(aggr, ret) == ret \o aggr

\* list-all: r.append(&mut ret)
append(aggr, ret) == aggr \o ret

\* list-all: offset += 50 (a u32: it overflows after 85899345 full pages, far
\* beyond MaxPages)
next_offset(off) == off + PageSize

\* One turn of the list-all loop, from the return of get_*(Some(50),
\* Some(offset)) to the next call or to the output.
ListAllReturn ==
    /\ Returned
    /\ cmd.op = "ListAll"
    /\ IF ~call.ret.ok
       THEN /\ Panic("called Result::unwrap() on an Err value")
            /\ UNCHANGED <<call, ncalls, log, offset, r, pages, out, inflight>>
       ELSE LET ret == call.ret.val
                b == last_page(ret)
            IN /\ ~b => Len(pages) < MaxPages
               /\ r' = append(r, ret)
               /\ offset' = next_offset(offset)
               /\ pages' = Append(pages, ret)
               /\ IF b
                  THEN /\ out' = Some(r')
                       /\ pc' = "done"
                       /\ UNCHANGED <<call, ncalls, log, inflight>>
                  ELSE /\ Invoke(cmd.m, cmd.ids, Some(PageSize), Some(offset'), <<>>)
                       /\ UNCHANGED out
               /\ UNCHANGED panicMsg
    /\ UNCHANGED <<cmd, dc, editObj, account, accountType, edit>>
    /\ UNCHANGED auxVars

\* update: let r = dc.get_x(id).await.unwrap(); then edit_obj
UpdateRetrieved ==
    /\ Returned
    /\ cmd.op = "Update"
    /\ call.m = cmd.m
    /\ IF call.ret.ok
       THEN /\ pc' = "edit"
            /\ editObj' = Some(call.ret.val)
            /\ UNCHANGED panicMsg
       ELSE /\ Panic("called Result::unwrap() on an Err value")
            /\ UNCHANGED editObj
    /\ UNCHANGED <<cmd, dc, call, ncalls, log, offset, r, pages, out, account, accountType, edit>>
    /\ UNCHANGED inflight
    /\ UNCHANGED auxVars

\* the scan taking the first collection listed, whatever its id
find_collection_any(list, collection_id) ==
    IF list = <<>> THEN None ELSE Some(list[1])

\* update-collection: the scan for c.id == Some(collection_id); the last
\* match wins, None when nothing matches
find_collection(list, collection_id) ==
    LET hits == { i \in 1..Len(list) : list[i] = Some(collection_id) }
    IN IF hits = {} THEN None
       ELSE Some(list[CHOOSE i \in hits : \A j \in hits : j <= i])

\* update-collection: get_page_collections(id).unwrap(), the scan, the
\* panic when the scan found nothing, else on to edit_obj
UpdateCollectionListed ==
    /\ Returned
    /\ cmd.op = "UpdateCollection"
    /\ call.m = cmd.m
    /\ IF ~call.ret.ok
       THEN /\ Panic("called Result::unwrap() on an Err value")
            /\ UNCHANGED editObj
       ELSE LET c == find_collection(call.ret.val, cmd.cid)
            IN IF IsSome(c)
               THEN /\ pc' = "edit"
                    /\ editObj' = Some(<<c[1]>>)
                    /\ UNCHANGED panicMsg
               ELSE /\ Panic("Invalid Collection Id")
                    /\ UNCHANGED editObj
    /\ pages' = IF call.ret.ok THEN Append(pages, call.ret.val) ELSE pages
    /\ UNCHANGED <<cmd, dc, call, ncalls, log, offset, r, out, account, accountType, edit>>
    /\ UNCHANGED inflight
    /\ UNCHANGED auxVars

\* the write addressed to the id found inside the edited object
WriteIds_object(c) ==
    IF IsSome(edit'.parsed) /\ IsSome(edit'.parsed[1][1])
    THEN <<edit'.parsed[1][1][1]>>
    ELSE c.ids

\* the ids of the write request: the command line's, never the object's
WriteIds(c) ==
    IF c.op = "UpdateCollection" THEN c.ids \o <<c.cid>>
    ELSE IF c.op = "AccountCreate" THEN <<>>
    ELSE c.ids

\* let r = util::edit_obj(editor, r, "").unwrap(), then the write call
\* with the object read back; the object handed over is moved into edit_obj
EditReturn ==
    /\ pc = "edit"
    /\ \E run \in EditRuns :
         LET res == edit_obj(run)
         IN /\ edit' = run
            /\ IF res.ok
               THEN /\ editObj' = Some(res.val)
                    /\ Invoke(cmd.w, WriteIds(cmd), None, None, res.val)
                    /\ UNCHANGED panicMsg
               ELSE /\ Panic("called Result::unwrap() on an Err value")
                    /\ UNCHANGED <<call, ncalls, log, editObj, inflight>>
    /\ account' = None
    /\ accountType' = None
    /\ UNCHANGED <<cmd, dc, offset, r, pages, out>>
    /\ UNCHANGED auxVars

\* create, update and update-collection: dc.post_x(r) or dc.put_x(id, r),
\* .await.unwrap(), then the output helper where the command has one
Written ==
    /\ Returned
    /\ cmd.op \in {"Update", "UpdateCollection", "Create", "AccountCreate"}
    /\ call.m = cmd.w
    /\ IF call.ret.ok
       THEN /\ pc' = "done"
            /\ out' = IF Renders(cmd) THEN Some(call.ret.val) ELSE None
            /\ UNCHANGED panicMsg
       ELSE /\ Panic("called Result::unwrap() on an Err value")
            /\ UNCHANGED out
    /\ UNCHANGED <<cmd, dc, call, ncalls, log, offset, r, pages, editObj, account, accountType, edit>>
    /\ UNCHANGED inflight
    /\ UNCHANGED auxVars

Next ==
    \/ Start
    \/ TokenResponse
    \/ ResourceResponse
    \/ SingleReturn
    \/ ListAllReturn
    \/ UpdateRetrieved
    \/ AccountTypeFetched
    \/ UpdateCollectionListed
    \/ EditReturn
    \/ Written

Spec == Init /\ [][Next]_vars


\* ------------------------------------------------------ the data model
\* most fields of a value, or keys of a payload, that are populated at once
MaxPopulated == 2

\* A record type of the data model: its fields in declaration order.
Struct(name, fields) == [name |-> name, fields |-> fields]

\* A field: its name, the JSON key serde gives it (rename_all = camelCase,
\* rename), whether it is an Option, the kind of what it holds, and its
\* skip_serializing_if (never; none: Option::is_none; empty: Vec::is_empty).
Field(name, key, option, kind, skip) ==
    [name |-> name, key |-> key, option |-> option, kind |-> kind, skip |-> skip]

\* src/public/account/mod.rs
account_structs ==
    { Struct("Account", <<
          Field("id", "id", TRUE, "string", "never"),
          Field("name", "name", TRUE, "string", "never"),
          Field("valid", "valid", TRUE, "bool", "never"),
          Field("account_type", "type", TRUE, "struct", "never") >>),
      Struct("AccountType", <<
          Field("id", "id", TRUE, "string", "never"),
          Field("name", "name", TRUE, "string", "never"),
          Field("properties", "properties", TRUE, "map", "never"),
          Field("templates", "_templates", TRUE, "map", "never") >>),
      Struct("AccountTemplate", <<
          Field("name", "name", TRUE, "string", "never"),
          Field("title", "title", TRUE, "string", "never"),
          Field("content_type", "contentType", TRUE, "string", "never"),
          Field("method", "method", TRUE, "string", "never"),
          Field("properties", "properties", TRUE, "vec", "never") >>),
      Struct("Property", <<
          Field("name", "name", TRUE, "string", "never"),
          Field("prompt", "prompt", TRUE, "string", "never"),
          Field("regex", "regex", TRUE, "string", "never"),
          Field("required", "required", TRUE, "bool", "never") >>) }

\* src/public/activity/mod.rs
activity_structs ==
    { Struct("LogEntry", <<
          Field("user_name", "userName", TRUE, "string", "never"),
          Field("user_id", "userId", TRUE, "string", "never"),
          Field("user_type", "userType", TRUE, "string", "never"),
          Field("actor_id", "actorId", TRUE, "int", "never"),
          Field("actor_type", "actorType", TRUE, "string", "never"),
          Field("object_name", "objectName", TRUE, "string", "never"),
          Field("object_id", "objectId", TRUE, "string", "never"),
          Field("object_type", "objectType", TRUE, "string", "never"),
          Field("additional_comment", "additionalComment", TRUE, "string", "never"),
          Field("time", "time", TRUE, "time", "never"),
          Field("event_text", "eventText", TRUE, "string", "never"),
          Field("device", "device", TRUE, "string", "never"),
          Field("browser_details", "browserDetails", TRUE, "string", "never"),
          Field("ip_address", "ipAddress", TRUE, "string", "never") >>) }

\* src/public/buzz/mod.rs
buzz_structs ==
    { Struct("Integration", <<
          Field("id", "id", TRUE, "string", "never"),
          Field("name", "name", TRUE, "string", "never"),
          Field("description", "description", TRUE, "string", "never"),
          Field("scope", "scope", TRUE, "string", "never"),
          Field("channel_ids", "channelIds", TRUE, "vec", "never"),
          Field("headers", "headers", TRUE, "vec", "never") >>),
      Struct("Header", <<
          Field("name", "name", TRUE, "string", "never"),
          Field("value", "value", TRUE, "string", "never") >>),
      Struct("Subscription", <<
          Field("id", "id", TRUE, "string", "never"),
          Field("event_type", "eventType", TRUE, "string", "never"),
          Field("url", "url", TRUE, "string", "never"),
          Field("slash_command", "slashCommand", TRUE, "string", "never") >>),
      Struct("Event", <<
          Field("author", "author", TRUE, "struct", "never"),
          Field("thread", "thread", TRUE, "struct", "never"),
          Field("message", "message", TRUE, "struct", "never"),
          Field("users", "users", TRUE, "vec", "never"),
          Field("event", "event", TRUE, "struct", "never"),
          Field("owner", "owner", TRUE, "struct", "never"),
          Field("organization", "organization", TRUE, "struct", "never"),
          Field("channel", "channel", TRUE, "struct", "never"),
          Field("callback", "callback", TRUE, "struct", "never") >>),
      Struct("EventT", <<
          Field("event_type", "type", TRUE, "string", "never") >>),
      Struct("Organization", <<
          Field("domain", "domain", TRUE, "string", "never") >>),
      Struct("buzz::User", <<
          Field("id", "id", TRUE, "int", "never"),
          Field("display_name", "displayName", TRUE, "string", "never"),
          Field("email", "email", TRUE, "string", "never") >>),
      Struct("Message", <<
          Field("id", "id", TRUE, "string", "never"),
          Field("text", "text", TRUE, "string", "never") >>),
      Struct("Channel", <<
          Field("id", "id", TRUE, "string", "never"),
          Field("parent_id", "parentId", TRUE, "string", "never"),
          Field("title", "title", TRUE, "string", "never") >>),
      Struct("Callback", <<
          Field("url", "url", TRUE, "string", "never"),
          Field("headers", "headers", FALSE, "map", "never") >>) }

\* src/public/dataset/mod.rs
dataset_structs ==
    { Struct("DataSet", <<
          Field("id", "id", TRUE, "string", "never"),
          Field("name", "name", TRUE, "string", "never"),
          Field("description", "description", TRUE, "string", "never"),
          Field("owner", "owner", TRUE, "struct", "never"),
          Field("created_at", "createdAt", TRUE, "time", "never"),
          Field("updated_at", "updatedAt", TRUE, "time", "never"),
          Field("data_current_at", "dataCurrentAt", TRUE, "time", "never"),
          Field("schema", "schema", TRUE, "struct", "never"),
          Field("pdp_enabled", "pdpEnabled", TRUE, "bool", "never"),
          Field("policies", "policies", TRUE, "vec", "never"),
          Field("rows", "rows", TRUE, "int", "never"),
          Field("columns", "columns", TRUE, "int", "never") >>),
      Struct("Owner", <<
          Field("id", "id", FALSE, "int", "never"),
          Field("name", "name", TRUE, "string", "never") >>),
      Struct("Schema", <<
          Field("columns", "columns", TRUE, "vec", "never") >>),
      Struct("Column", <<
          Field("name", "name", TRUE, "string", "never"),
          Field("column_type", "type", TRUE, "string", "never") >>),
      Struct("Policy", <<
          Field("id", "id", TRUE, "int", "never"),
          Field("name", "name", TRUE, "string", "never"),
          Field("policy_type", "type", TRUE, "string", "never"),
          Field("filters", "filters", TRUE, "vec", "never"),
          Field("users", "users", TRUE, "vec", "never"),
          Field("groups", "groups", TRUE, "vec", "never") >>),
      Struct("Filter", <<
          Field("column", "column", TRUE, "string", "never"),
          Field("not", "not", TRUE, "bool", "never"),
          Field("operator", "operator", TRUE, "string", "never"),
          Field("values", "values", FALSE, "vec", "empty") >>),
      Struct("QueryResult", <<
          Field("datasource", "datasource", TRUE, "string", "never"),
          Field("columns", "columns", TRUE, "vec", "never"),
          Field("metadata", "metadata", TRUE, "vec", "never"),
          Field("rows", "rows", TRUE, "vec", "never"),
          Field("num_rows", "numRows", TRUE, "int", "never"),
          Field("num_columns", "numColumns", TRUE, "int", "never"),
          Field("from_cache", "fromCache", TRUE, "bool", "never") >>),
      Struct("QueryMetadata", <<
          Field("column_type", "type", TRUE, "string", "never"),
          Field("datasource_id", "datasourceId", TRUE, "string", "never"),
          Field("max_length", "maxLength", TRUE, "int", "never"),
          Field("min_length", "minLength", TRUE, "int", "never"),
          Field("period_index", "periodIndex", TRUE, "int", "never") >>) }

\* src/public/group/mod.rs
group_structs ==
    { Struct("Group", <<
          Field("id", "id", TRUE, "int", "none"),
          Field("name", "name", TRUE, "string", "none"),
          Field("default", "default", TRUE, "bool", "none"),
          Field("active", "active", TRUE, "bool", "none"),
          Field("creator_id", "creatorId", TRUE, "string", "none"),
          Field("member_count", "memberCount", TRUE, "int", "none") >>) }

\* src/public/page/mod.rs
page_structs ==
    { Struct("Page", <<
          Field("id", "id", TRUE, "int", "never"),
          Field("name", "name", TRUE, "string", "never"),
          Field("parent_id", "parentId", TRUE, "int", "never"),
          Field("owner_id", "ownerId", TRUE, "int", "never"),
          Field("locked", "locked", TRUE, "bool", "never"),
          Field("collection_ids", "collectionIds", TRUE, "vec", "never"),
          Field("card_ids", "cardIds", TRUE, "vec", "never"),
          Field("children", "children", TRUE, "vec", "never"),
          Field("visibility", "visibility", TRUE, "struct", "never") >>),
      Struct("Visibility", <<
          Field("user_ids", "userIds", TRUE, "vec", "never"),
          Field("group_ids", "groupIds", TRUE, "vec", "never") >>),
      Struct("Collection", <<
          Field("id", "id", TRUE, "int", "never"),
          Field("title", "title", TRUE, "string", "never"),
          Field("description", "description", TRUE, "string", "never"),
          Field("card_ids", "cardIds", TRUE, "vec", "never") >>) }

\* src/public/stream/mod.rs
stream_structs ==
    { Struct("Stream", <<
          Field("id", "id", TRUE, "int", "never"),
          Field("created_at", "createdAt", TRUE, "time", "never"),
          Field("modified_at", "modifiedAt", TRUE, "time", "never"),
          Field("update_method", "updateMethod", TRUE, "string", "never"),
          Field("key_column_name", "keyColumnName", TRUE, "string", "never"),
          Field("dataset", "dataSet", TRUE, "struct", "never"),
          Field("deleted", "deleted", TRUE, "bool", "never") >>),
      Struct("Execution", <<
          Field("id", "id", TRUE, "int", "never"),
          Field("started_at", "startedAt", TRUE, "time", "never"),
          Field("current_state", "currentState", TRUE, "string", "never"),
          Field("created_at", "createdAt", TRUE, "time", "never"),
          Field("modified_at", "modifiedAt", TRUE, "time", "never") >>) }

\* src/public/user/mod.rs
user_structs ==
    { Struct("User", <<
          Field("id", "id", TRUE, "int", "never"),
          Field("name", "name", TRUE, "string", "never"),
          Field("email", "email", TRUE, "string", "never"),
          Field("alternate_email", "alternateEmail", TRUE, "string", "never"),
          Field("employee_id", "employeeId", TRUE, "string", "never"),
          Field("employee_number", "employeeNumber", TRUE, "int", "never"),
          Field("title", "title", TRUE, "string", "never"),
          Field("phone", "phone", TRUE, "string", "never"),
          Field("location", "location", TRUE, "string", "never"),
          Field("department", "department", TRUE, "string", "never"),
          Field("timezone", "timezone", TRUE, "string", "never"),
          Field("locale", "locale", TRUE, "string", "never"),
          Field("role", "role", TRUE, "string", "never"),
          Field("role_id", "roleId", TRUE, "int", "never"),
          Field("deleted", "deleted", TRUE, "bool", "never") >>) }

\* src/public/workflow/mod.rs
workflow_structs ==
    { Struct("Project", <<
          Field("id", "id", TRUE, "string", "never"),
          Field("name", "name", TRUE, "string", "never"),
          Field("description", "description", TRUE, "string", "never"),
          Field("created_by", "createdBy", TRUE, "int", "never"),
          Field("created_date", "createdDate", TRUE, "time", "never"),
          Field("due_date", "dueDate", TRUE, "time", "never"),
          Field("public", "public", TRUE, "bool", "never"),
          Field("members", "members", TRUE, "vec", "never") >>),
      Struct("List", <<
          Field("id", "id", TRUE, "int", "never"),
          Field("name", "name", TRUE, "string", "never"),
          Field("list_type", "type", TRUE, "string", "never"),
          Field("index", "index", FALSE, "int", "never") >>),
      Struct("Task", <<
          Field("id", "id", TRUE, "int", "never"),
          Field("project_id", "projectId", TRUE, "int", "never"),
          Field("project_list_id", "projectListId", TRUE, "int", "never"),
          Field("task_name", "taskName", TRUE, "string", "never"),
          Field("description", "description", TRUE, "string", "never"),
          Field("created_date", "createdDate", TRUE, "time", "never"),
          Field("due_date", "dueDate", TRUE, "time", "never"),
          Field("priority", "priority", TRUE, "int", "never"),
          Field("created_by", "createdBy", TRUE, "int", "never"),
          Field("owned_by", "ownedBy", TRUE, "int", "never"),
          Field("contributors", "contributors", TRUE, "vec", "never"),
          Field("attachment_count", "attachmentCount", TRUE, "int", "never"),
          Field("tags", "tags", TRUE, "vec", "never"),
          Field("archived", "archived", FALSE, "bool", "never") >>),
      Struct("Attachment", <<
          Field("id", "id", TRUE, "int", "never"),
          Field("task_id", "taskId", TRUE, "int", "never"),
          Field("created_date", "createdDate", TRUE, "time", "never"),
          Field("file_name", "fileName", TRUE, "string", "never"),
          Field("mime_type", "mimeType", TRUE, "string", "never") >>) }

Structs ==
    account_structs \cup activity_structs \cup buzz_structs \cup dataset_structs
        \cup group_structs \cup page_structs \cup stream_structs
        \cup user_structs \cup workflow_structs

StructNames == { T.name : T \in Structs }

StructNamed(n) == CHOOSE T \in Structs : T.name = n

FieldNames(T) == { T.fields[i].name : i \in DOMAIN T.fields }

FieldNamed(T, n) == T.fields[CHOOSE i \in DOMAIN T.fields : T.fields[i].name = n]

Keys(T) == { T.fields[i].key : i \in DOMAIN T.fields }

FieldKeyed(T, k) == T.fields[CHOOSE i \in DOMAIN T.fields : T.fields[i].key = k]

\* Default::default() of what a field of this kind holds: the empty string,
\* 0, false, the epoch, the empty Vec, the empty HashMap, the record with
\* nothing set
Falsy(kind) ==
    CASE kind = "string" -> ""
      [] kind = "int" -> 0
      [] kind = "bool" -> FALSE
      [] kind = "time" -> [secs |-> 0]
      [] kind = "vec" -> <<>>
      [] kind = "map" -> EmptyMap
      [] OTHER -> [set |-> 0]

\* another value of the kind
Truthy(kind) ==
    CASE kind = "string" -> "x"
      [] kind = "int" -> 7
      [] kind = "bool" -> TRUE
      [] kind = "time" -> [secs |-> 1]
      [] kind = "vec" -> <<7>>
      [] kind = "map" -> Singleton("a", "b")
      [] OTHER -> [set |-> 1]

\* serde_json::to_string of such a value
to_json(kind, x) ==
    CASE kind = "string" -> "\"" \o x \o "\""
      [] kind = "int" -> ToString(x)
      [] kind = "bool" -> IF x THEN "true" ELSE "false"
      [] kind = "time" -> "\"1970-01-01T00:00:0" \o ToString(x.secs) \o "Z\""
      [] kind = "vec" -> IF x = <<>> THEN "[]" ELSE "[" \o ToString(x[1]) \o "]"
      [] kind = "map" -> IF DOMAIN x = {} THEN "{}" ELSE "{\"a\":\"" \o x["a"] \o "\"}"
      [] OTHER -> IF x.set = 0 THEN "{}" ELSE "{\"id\":" \o ToString(x.set) \o "}"

\* serde_json::from_str of a JSON text into a value of the kind
from_json(kind, text) ==
    LET hits == { x \in { Falsy(kind), Truthy(kind) } : to_json(kind, x) = text }
    IN IF hits = {} THEN Err("Decode", 0, "") ELSE Ok(CHOOSE x \in hits : TRUE)

\* what a field gets when its key is absent: None for an Option,
\* Default::default() (serde(default) on the struct) for anything else
absent(f) == IF f.option THEN None ELSE Falsy(f.kind)

\* null refused for every field, an Option included
field_from_strict(f, obj) ==
    IF f.key \notin DOMAIN obj THEN Ok(absent(f))
    ELSE IF obj[f.key] = "null" THEN Err("Decode", 0, "")
    ELSE LET x == from_json(f.kind, obj[f.key])
         IN IF ~x.ok THEN x
            ELSE IF f.option THEN Ok(Some(x.val)) ELSE Ok(x.val)

\* one field out of a JSON object (a function from the keys present to
\* their JSON texts); null is None for an Option and an error otherwise
field_from(f, obj) ==
    IF f.key \notin DOMAIN obj THEN Ok(absent(f))
    ELSE IF obj[f.key] = "null"
    THEN IF f.option THEN Ok(None) ELSE Err("Decode", 0, "")
    ELSE LET x == from_json(f.kind, obj[f.key])
         IN IF ~x.ok THEN x
            ELSE IF f.option THEN Ok(Some(x.val)) ELSE Ok(x.val)

\* Deserialize for T: every field from its key, keys of no field ignored
deserialize(T, obj) ==
    LET got == [n \in FieldNames(T) |-> field_from(FieldNamed(T, n), obj)]
    IN IF \E n \in FieldNames(T) : ~got[n].ok
       THEN Err("Decode", 0, "")
       ELSE Ok([n \in FieldNames(T) |-> got[n].val])

\* skip_serializing_if
skipped(f, x) ==
    \/ f.skip = "none" /\ x = None
    \/ f.skip = "empty" /\ x = <<>>

field_to(f, x) ==
    IF f.option
    THEN IF x = None THEN "null" ELSE to_json(f.kind, x[1])
    ELSE to_json(f.kind, x)

\* Serialize for T: one key per field that is not skipped
serialize(T, v) ==
    LET kept == { n \in FieldNames(T) : ~skipped(FieldNamed(T, n), v[n]) }
    IN [k \in { FieldNamed(T, n).key : n \in kept } |->
          field_to(FieldKeyed(T, k), v[FieldKeyed(T, k).name])]

\* the subsets of F with at most n members
RECURSIVE SubsetsUpTo(_, _)
SubsetsUpTo(F, n) ==
    IF n = 0 THEN { {} }
    ELSE LET smaller == SubsetsUpTo(F, n - 1)
         IN smaller \cup { S \cup {x} : S \in smaller, x \in F }

\* a field holding its c-th sample: 1 the falsy value, 2 another one
populated(f, c) ==
    LET x == IF c = 1 THEN Falsy(f.kind) ELSE Truthy(f.kind)
    IN IF f.option THEN Some(x) ELSE x

\* the values of T with at most MaxPopulated fields populated, the others
\* as Default::default() leaves them
Values(T) ==
    UNION { { [n \in FieldNames(T) |->
                 IF n \in S THEN populated(FieldNamed(T, n), pick[n])
                 ELSE absent(FieldNamed(T, n))] : pick \in [S -> 1..2] } :
            S \in SubsetsUpTo(FieldNames(T), MaxPopulated) }

\* the c-th sample text of a key: the falsy value, another one, null
sample_text(f, c) ==
    IF c = 3 THEN "null" ELSE to_json(f.kind, IF c = 1 THEN Falsy(f.kind) ELSE Truthy(f.kind))

\* the JSON objects a server sends for T with at most MaxPopulated of its
\* keys present
Payloads(T) ==
    UNION { { [k \in S |-> sample_text(FieldKeyed(T, k), pick[k])] :
                pick \in [S -> 1..3] } :
            S \in SubsetsUpTo(Keys(T), MaxPopulated) }

\* a value about to be sent, or a payload just received; the command line
\* client plays no part
SerdeInit ==
    /\ CliIdle
    /\ CsvIdle
    /\ FileIdle
    /\ dtype \in StructNames
    /\ dback = None
    /\ \/ /\ dval \in { Some(v) : v \in Values(StructNamed(dtype)) }
          /\ djson = None
       \/ /\ dval = None
          /\ djson \in { Some(o) : o \in Payloads(StructNamed(dtype)) }

\* the request body of a write: surf::Body::from_json(&obj)
Serialize ==
    /\ IsSome(dval)
    /\ IsNone(djson)
    /\ djson' = Some(serialize(StructNamed(dtype), dval[1]))
    /\ UNCHANGED <<dtype, dval, dback>>
    /\ UNCHANGED <<cliVars, csvVars, fileVars>>

\* the response body decoded: response.body_json()
Deserialize ==
    /\ IsSome(djson)
    /\ IsNone(dback)
    /\ dback' = Some(deserialize(StructNamed(dtype), djson[1]))
    /\ UNCHANGED <<dtype, dval, djson>>
    /\ UNCHANGED <<cliVars, csvVars, fileVars>>

SerdeNext ==
    \/ Serialize
    \/ Deserialize

SerdeSpec == SerdeInit /\ [][SerdeNext]_vars

\* ------------------------------------------------- the client as a library
\* A program that holds one Client and calls the stream upload methods one
\* after the other, as often and in whatever order it likes. The Client has
\* the three fields of Client_new and nothing else: nothing a call could
\* leave behind for the next one.
MaxCalls == 3

\* the part ids a caller passes
PartIds == {1, 2}

StreamCalls ==
    { MethodNamed("put_stream_execution_part"),
      MethodNamed("put_stream_execution_commit") }

\* stream 7, execution 8, and for a part upload the part id
StreamIds(m, part) == IF m.nids = 3 THEN <<7, 8, part>> ELSE <<7, 8>>

LibInit ==
    /\ cmd = Command("Library", MethodNamed("put_stream_execution_commit"),
                     MethodNamed("put_stream_execution_commit"), 0, TRUE)
    /\ dc \in Clients
    /\ pc = "caller"
    /\ call = NoCall
    /\ ncalls = 0
    /\ log = <<>>
    /\ offset = 0
    /\ r = <<>>
    /\ pages = <<>>
    /\ editObj = None
    /\ out = None
    /\ panicMsg = ""
    /\ account = None
    /\ accountType = None
    /\ edit = NoEdit
    /\ inflight = {}
    /\ SerdeIdle
    /\ CsvIdle
    /\ FileIdle

\* the caller enters put_stream_execution_part(7, 8, part, csv) or
\* put_stream_execution_commit(7, 8); fileOk says whether csv can be read
LibCall ==
    /\ cmd.op = "Library"
    /\ pc = "caller"
    /\ ncalls < MaxCalls
    /\ \E m \in StreamCalls, part \in PartIds, fileOk \in BOOLEAN :
         /\ ~m.file => (fileOk /\ part = 1)
         /\ cmd' = Command("Library", m, m, 0, fileOk)
         /\ Invoke(m, StreamIds(m, part), None, None, <<>>)
    /\ UNCHANGED <<dc, offset, r, pages, editObj, out, panicMsg, account, accountType, edit>>
    /\ UNCHANGED auxVars

\* the method hands its Result back to the caller, who is free to call again
LibReturn ==
    /\ cmd.op = "Library"
    /\ Returned
    /\ pc' = "caller"
    /\ UNCHANGED <<cmd, dc, call, ncalls, log, offset, r, pages, editObj, out, panicMsg, account, accountType, edit, inflight>>
    /\ UNCHANGED auxVars

LibNext ==
    \/ LibCall
    \/ TokenResponse
    \/ ResourceResponse
    \/ LibReturn

LibSpec == LibInit /\ [][LibNext]_vars

\* ------------------------------------------------- dataset export output
\* util::csv_template_output: the text get_dataset_data returned is printed
\* as it is, or read record by record with the csv crate and printed as a
\* list of lists.
MaxText == 5

\* the characters of the texts tried; a quote character is not among them
CsvChars == {"a", "1", ",", "\n"}

\* the two lines a,b and 1,2
TwoLines == <<"a", ",", "b", "\n", "1", ",", "2">>

Texts == UNION { [1..n -> CsvChars] : n \in 0..MaxText } \cup {TwoLines}

Templates == {"json", "yaml", "debug", "none"}

\* r.as_bytes() back as one string
RECURSIVE as_str(_)
as_str(chars) ==
    IF chars = <<>> THEN "" ELSE chars[1] \o as_str(Tail(chars))

\* csv reader: lines holding nothing are passed over between records
RECURSIVE skip_blank(_, _)
skip_blank(text, pos) ==
    IF pos <= Len(text) /\ text[pos] = "\n" THEN skip_blank(text, pos + 1)
    ELSE pos

\* csv reader: the fields from pos up to the end of the line or of the text
RECURSIVE read_fields(_, _, _, _)
read_fields(text, pos, rec, field) ==
    IF pos > Len(text) THEN [some |-> TRUE, rec |-> Append(rec, field), pos |-> pos]
    ELSE IF text[pos] = "\n"
    THEN [some |-> TRUE, rec |-> Append(rec, field), pos |-> pos + 1]
    ELSE IF text[pos] = ","
    THEN read_fields(text, pos + 1, Append(rec, field), "")
    ELSE read_fields(text, pos + 1, rec, field \o text[pos])

\* rdr.records().next(): the next record and where the reader stands after
\* it, or nothing at the end of the text
read_record(text, pos) ==
    LET p == skip_blank(text, pos)
    IN IF p > Len(text) THEN [some |-> FALSE, rec |-> <<>>, pos |-> p]
       ELSE read_fields(text, p, <<>>, "")

\* a reader built with has_headers(true): the first record is the header
\* and is never handed out
first_pos_headers(text) == read_record(text, 1).pos

\* ReaderBuilder::new().has_headers(false).from_reader(r.as_bytes()): the
\* first record read is the first record of the text
first_pos(text) == 1

\* csv reader, flexible(false): a record is an error when it has not as many
\* fields as the first one
unequal_lengths(aggr, rec) == aggr # <<>> /\ Len(rec) # Len(aggr[1])

RECURSIVE join(_, _)
join(items, sep) ==
    IF items = <<>> THEN ""
    ELSE IF Len(items) = 1 THEN items[1]
    ELSE items[1] \o sep \o join(Tail(items), sep)

\* serde_json::to_string(&aggr) of a Vec<Vec<String>>
serde_json_to_string(aggr) ==
    LET row(rec) == "[" \o join([j \in DOMAIN rec |-> "\"" \o rec[j] \o "\""], ",") \o "]"
    IN "[" \o join([i \in DOMAIN aggr |-> row(aggr[i])], ",") \o "]"

\* println! of the list of lists; the YAML text is not spelled out
Printed(template, aggr) ==
    [fmt |-> template, rows |-> aggr,
     text |-> IF template = "json" THEN serde_json_to_string(aggr) ELSE "yaml"]

CsvInit ==
    /\ CliIdle
    /\ SerdeIdle
    /\ FileIdle
    /\ csvText \in Texts
    /\ csvTemplate \in Templates
    /\ csvPos = 0
    /\ csvAggr = <<>>
    /\ csvOut = None
    /\ csvPc = "start"

\* match template.as_deref(): print r as it is, or build the reader
CsvStart ==
    /\ csvPc = "start"
    /\ IF csvTemplate \in {"json", "yaml"}
       THEN /\ csvPc' = "loop"
            /\ csvPos' = first_pos(csvText)
            /\ UNCHANGED csvOut
       ELSE /\ csvPc' = "done"
            /\ csvOut' = Some([fmt |-> "text", rows |-> <<>>, text |-> as_str(csvText)])
            /\ UNCHANGED csvPos
    /\ UNCHANGED <<csvText, csvTemplate, csvAggr>>
    /\ UNCHANGED <<cliVars, serdeVars, fileVars>>

\* one turn of while let Some(result) = rdr.records().next(): the record is
\* unwrapped and pushed, or the loop is left and aggr printed
CsvRecord ==
    /\ csvPc = "loop"
    /\ LET rr == read_record(csvText, csvPos)
       IN IF ~rr.some
          THEN /\ csvOut' = Some(Printed(csvTemplate, csvAggr))
               /\ csvPc' = "done"
               /\ UNCHANGED <<csvPos, csvAggr>>
          ELSE IF unequal_lengths(csvAggr, rr.rec)
          THEN /\ csvPc' = "panic"
               /\ UNCHANGED <<csvPos, csvAggr, csvOut>>
          ELSE /\ csvAggr' = Append(csvAggr, rr.rec)
               /\ csvPos' = rr.pos
               /\ UNCHANGED <<csvPc, csvOut>>
    /\ UNCHANGED <<csvText, csvTemplate>>
    /\ UNCHANGED <<cliVars, serdeVars, fileVars>>

CsvNext ==
    \/ CsvStart
    \/ CsvRecord

\* the loop is the only thing the process does: it keeps taking turns
CsvSpec == CsvInit /\ [][CsvNext]_vars /\ WF_vars(CsvNext)

\* ------------------------------------------------- the list-all loop alone
\* dataset list-all, stream list-all, user list-all
ListAllInit == Init /\ cmd.op = "ListAll"

ListAllNext ==
    \/ Start
    \/ TokenResponse
    \/ ResourceResponse
    \/ ListAllReturn

\* the process runs on and every request is answered or fails: whenever a
\* step can be taken, one is
ListAllSpec == ListAllInit /\ [][ListAllNext]_vars /\ WF_vars(ListAllNext)

\* ------------------------------------------------- the staging files
\* Two invocations on one machine, each inside util::edit_obj or
\* util::edit_md. Both functions build their path from env::temp_dir() and
\* a fixed file name, so all invocations on the machine name the same two
\* files. A step is one file system call or one act of the editor.
Procs == {1, 2}

\* edit_obj: domo_tmp_edit_obj.yaml; edit_md: domo_tmp_edit_str.md
EditFns == {"edit_obj", "edit_md"}

\* the text invocation p stages: its own object or markdown
staged(p) == <<"staged", p>>

\* the text the editor of invocation p saves over the buffer it had loaded
saved(p, buf) == <<"saved", p>> \o buf

FileInit ==
    /\ CliIdle
    /\ SerdeIdle
    /\ CsvIdle
    /\ file = [f \in EditFns |-> None]
    /\ proc \in [Procs -> { [fn |-> f, pc |-> "start", created |-> FALSE,
                             buf |-> <<>>, ret |-> None] : f \in EditFns }]

\* File::create(&dir)?: the file is there and empty, or the call fails
Create(p) ==
    /\ proc[p].pc = "start"
    /\ \/ /\ file' = [file EXCEPT ![proc[p].fn] = Some(<<>>)]
          /\ proc' = [proc EXCEPT ![p].pc = "created", ![p].created = TRUE]
       \/ /\ proc' = [proc EXCEPT ![p].pc = "failed"]
          /\ UNCHANGED file
    /\ UNCHANGED <<cliVars, serdeVars, csvVars>>

\* f.write_all(contents.as_bytes())?; f.sync_all()?; and f dropped
WriteAll(p) ==
    /\ proc[p].pc = "created"
    /\ \/ /\ file' = [file EXCEPT ![proc[p].fn] = Some(staged(p))]
          /\ proc' = [proc EXCEPT ![p].pc = "written"]
       \/ /\ proc' = [proc EXCEPT ![p].pc = "failed"]
          /\ UNCHANGED file
    /\ UNCHANGED <<cliVars, serdeVars, csvVars>>

\* editor_cmd.status()?: the editor cannot be started, or it starts and
\* loads what the file holds
EditorStart(p) ==
    /\ proc[p].pc = "written"
    /\ \/ proc' = [proc EXCEPT ![p].pc = "editing", ![p].buf = file[proc[p].fn][1]]
       \/ proc' = [proc EXCEPT ![p].pc = "failed"]
    /\ UNCHANGED file
    /\ UNCHANGED <<cliVars, serdeVars, csvVars>>

\* the editor is left, with or without saving: status() returns, and its
\* exit status is dropped
EditorExit(p) ==
    /\ proc[p].pc = "editing"
    /\ \E save \in BOOLEAN :
         file' = IF save
                 THEN [file EXCEPT ![proc[p].fn] = Some(saved(p, proc[p].buf))]
                 ELSE file
    /\ proc' = [proc EXCEPT ![p].pc = "exited"]
    /\ UNCHANGED <<cliVars, serdeVars, csvVars>>

\* a function that removes its staging file before it returns
ReadBack_cleanup(p) ==
    /\ proc[p].pc = "exited"
    /\ LET yaml == file[proc[p].fn][1]
       IN \/ /\ proc[p].fn = "edit_obj" => yaml # <<>>
             /\ proc' = [proc EXCEPT ![p].pc = "done", ![p].ret = Some(yaml)]
          \/ proc' = [proc EXCEPT ![p].pc = "failed"]
    /\ file' = [file EXCEPT ![proc[p].fn] = None]
    /\ UNCHANGED <<cliVars, serdeVars, csvVars>>

\* fs::read_to_string(&dir)? and, in edit_obj, serde_yaml::from_str(&yaml)?:
\* what the file holds now is what the function returns; an empty file is
\* no object; the read or the parse may fail
ReadBack(p) ==
    /\ proc[p].pc = "exited"
    /\ LET yaml == file[proc[p].fn][1]
       IN \/ /\ proc[p].fn = "edit_obj" => yaml # <<>>
             /\ proc' = [proc EXCEPT ![p].pc = "done", ![p].ret = Some(yaml)]
          \/ proc' = [proc EXCEPT ![p].pc = "failed"]
    /\ UNCHANGED file
    /\ UNCHANGED <<cliVars, serdeVars, csvVars>>

FileNext ==
    \E p \in Procs :
        \/ Create(p)
        \/ WriteAll(p)
        \/ EditorStart(p)
        \/ EditorExit(p)
        \/ ReadBack(p)

FileSpec == FileInit /\ [][FileNext]_vars

\* ------------------------------------------------- the webhook commands
\* webhook::Client: no host, no credentials, no token; each method posts
\* to the url it is given
WebhookMethods ==
    { Method("post_buzz_message", "", "POST", "{url}", 0, "unit", "post", FALSE),
      Method("post_dataset_json", "", "POST", "{url}", 0, "unit", "post", FALSE),
      Method("post_integration_message", "", "POST", "{url}", 0, "unit", "reqwest", FALSE) }

\* util::edit_md: as edit_obj, but the text read back is returned as it is
edit_md(run) ==
    IF ~run.written THEN Err("Io", 0, "")
    ELSE IF run.editor = "nostart" THEN Err("Io", 0, "")
    ELSE IF ~run.readback THEN Err("Io", 0, "")
    ELSE Ok(IF IsSome(run.parsed) THEN run.parsed[1] ELSE <<None>>)

WhInit ==
    /\ cmd \in { Command("Webhook", m, m, 0, TRUE) : m \in WebhookMethods }
    /\ dc = Client_new("", "", "")
    /\ pc = "edit"
    /\ call = NoCall
    /\ ncalls = 0
    /\ log = <<>>
    /\ offset = 0
    /\ r = <<>>
    /\ pages = <<>>
    /\ editObj = Some(<<None>>)
    /\ out = None
    /\ panicMsg = ""
    /\ account = None
    /\ accountType = None
    /\ edit = NoEdit
    /\ inflight = {}
    /\ SerdeIdle
    /\ CsvIdle
    /\ FileIdle

\* edit_md or edit_obj, .unwrap(), then the method up to its request: the
\* body is encoded (Body::from_json(..)?, .json(&m)) and the POST sent
WhEdit ==
    /\ cmd.op = "Webhook"
    /\ pc = "edit"
    /\ \E run \in EditRuns, encoded \in BOOLEAN :
         LET res == IF cmd.m.name = "post_dataset_json" THEN edit_obj(run)
                    ELSE edit_md(run)
             c == [m |-> cmd.m, ids |-> <<>>, lim |-> None, off |-> None,
                   payload |-> res.val, stage |-> "resource", at |-> "",
                   tokResp |-> None, resp |-> None, ret |-> Ok(<<>>)]
         IN /\ edit' = run
            /\ IF ~res.ok
               THEN /\ Panic("called Result::unwrap() on an Err value")
                    /\ UNCHANGED <<call, ncalls, log, inflight>>
               ELSE /\ ncalls' = 1
                    /\ pc' = "await"
                    /\ UNCHANGED panicMsg
                    /\ IF encoded
                       THEN /\ call' = c
                            /\ log' = Append(log, ResourceRequest(c, "", 1))
                            /\ inflight' = send(inflight, Len(log) + 1)
                       ELSE /\ call' = [c EXCEPT !.stage = "returned",
                                                 !.ret = Err("Encode", 0, "")]
                            /\ UNCHANGED <<log, inflight>>
    /\ UNCHANGED <<cmd, dc, offset, r, pages, editObj, out, account, accountType>>
    /\ UNCHANGED auxVars

\* c.post_x(..).await.unwrap()
WhReturn ==
    /\ cmd.op = "Webhook"
    /\ Returned
    /\ IF call.ret.ok
       THEN pc' = "done" /\ UNCHANGED panicMsg
       ELSE Panic("called Result::unwrap() on an Err value")
    /\ UNCHANGED <<cmd, dc, call, ncalls, log, offset, r, pages, editObj, out, account, accountType, edit, inflight>>
    /\ UNCHANGED auxVars

WhNext ==
    \/ WhEdit
    \/ ResourceResponse
    \/ WhReturn

WhSpec == WhInit /\ [][WhNext]_vars
\* ================================================================ claims
\* the positions in the log of the requests of one kind that call n sent
ReqsOf(n, kind) == { i \in DOMAIN log : log[i].call = n /\ log[i].kind = kind }

\* a response that arrived with a status outside 200..299
NonSuccess(o) == IsSome(o) /\ o[1].transport /\ ~is_success(o[1].status)

\* a body holding an error object: status and message are there
HoldsApiError(b) == b.shape = "object" /\ IsSome(b.status) /\ IsSome(b.message)

\* C1: every client method (the page methods included) that receives a
\* response with a status outside 2xx whose body holds an error object
\* returns, whatever the status, the failure PubAPIError carrying the body's
\* status and message, and no value.
C1_NonSuccessIsPubAPIError ==
    (call.stage = "returned" /\ NonSuccess(call.resp)
        /\ HoldsApiError(call.resp[1].body))
    => call.ret = Err("PubAPIError", call.resp[1].body.status[1],
                      call.resp[1].body.message[1])

\* C1 restricted to the methods written against surf (all but the page
\* methods), where it holds.
C1_SurfNonSuccessIsPubAPIError ==
    (call.m.style = "surf") => C1_NonSuccessIsPubAPIError

ListAll == cmd.op = "ListAll"

\* C2: list-all asks for its n-th page with limit 50 and offset 50*(n-1),
\* never starts another page request once a page shorter than 50 has come
\* back, and has always started the next page request once a page of 50 or
\* more has come back.
C2_ListAllPaging ==
    ListAll =>
        /\ \A i \in DOMAIN log :
             log[i].kind = "resource" =>
                /\ log[i].lim = Some(50)
                /\ log[i].off = Some(50 * (log[i].call - 1))
        /\ call.stage # "none" =>
                call.lim = Some(50) /\ call.off = Some(50 * (ncalls - 1))
        /\ \A i \in DOMAIN pages :
             IF Len(pages[i]) < 50
             THEN i = Len(pages) /\ ncalls = i /\ pc = "done"
             ELSE ncalls > i /\ ReqsOf(i + 1, "token") # {}

C2_Witness ==
    /\ ListAll
    /\ pc = "done"
    /\ Len(pages) = 2
    /\ Len(pages[1]) = 51
    /\ Len(pages[2]) = 49

RECURSIVE Concat(_)
Concat(ss) == IF ss = <<>> THEN <<>> ELSE Concat(SubSeq(ss, 1, Len(ss) - 1)) \o ss[Len(ss)]

PageLens == [i \in DOMAIN pages |-> Len(pages[i])]

\* C3: the aggregate of list-all is the concatenation of the pages received,
\* in the order received and each in its own order, the last short page
\* included, and that is what is printed; pages of 50, 50 and 23 records
\* give 123 records out of exactly 3 list calls.
C3_ListAllConcatenates ==
    ListAll =>
        /\ r = Concat(pages)
        /\ pc = "done" => out = Some(Concat(pages))
        /\ (pc = "done" /\ PageLens = <<50, 50, 23>>) =>
                /\ Len(out[1]) = 123
                /\ ncalls = 3
                /\ Cardinality({ i \in DOMAIN log : log[i].kind = "resource" }) = 3

C3_Witness ==
    /\ ListAll
    /\ pc = "done"
    /\ PageLens = <<50, 50, 23>>
    /\ pages[2] = Items(50, 50, TRUE)
    /\ out = Some(Items(0, 50, FALSE) \o Items(50, 50, TRUE) \o Items(100, 23, FALSE))

\* the first k pages received hold exactly 50 records each
FullPages(k) == k <= Len(pages) /\ \A i \in 1..k : Len(pages[i]) = 50

\* C4: when k pages of exactly 50 records are followed by nothing more,
\* list-all makes call k+1 after the k-th page, takes the empty page that
\* call returns as the last one without failing, and ends with 50*k records
\* out of exactly k+1 list calls.
C4_ExactMultiple ==
    ListAll =>
        \A k \in 0..Len(pages) :
            FullPages(k) =>
                /\ Len(pages) = k => (pc # "done" /\ (k > 0 => ncalls = k + 1))
                /\ (Len(pages) = k + 1 /\ pages[k + 1] = <<>>) =>
                        /\ pc = "done"
                        /\ ncalls = k + 1
                        /\ Len(out[1]) = 50 * k
                        /\ Cardinality({ i \in DOMAIN log :
                                           log[i].kind = "resource" }) = k + 1

C4_Witness ==
    /\ ListAll
    /\ pc = "done"
    /\ PageLens = <<50, 50, 0>>
    /\ Len(out[1]) = 100
    /\ ncalls = 3

\* the requests call n sent, token fetches and resource requests alike
Resources == { i \in DOMAIN log : log[i].kind = "resource" }
Tokens == { i \in DOMAIN log : log[i].kind = "token" }

\* C5: every client call fetches exactly one token and sends its resource
\* request only after that fetch, with the token that very fetch returned:
\* no token is kept from an earlier call, so a command whose n calls all
\* went through has sent token, resource, token, resource, ... n times over.
C5_TokenPerCall ==
    /\ Cardinality(Tokens) = ncalls
    /\ \A n \in 1..ncalls : Cardinality(ReqsOf(n, "token")) = 1
    /\ \A i \in Resources :
         /\ i > 1
         /\ log[i - 1].kind = "token"
         /\ log[i - 1].call = log[i].call
         /\ log[i - 1].scope = log[i].scope
         /\ log[i].auth = "Bearer " \o TokenFor(log[i].call)
    /\ \A i \in Tokens : log[i].call = Cardinality({ j \in Tokens : j <= i })
    /\ pc = "done" =>
         /\ Len(log) = 2 * ncalls
         /\ \A n \in 1..ncalls :
              log[2 * n - 1].kind = "token" /\ log[2 * n].kind = "resource"

C5_Witness ==
    /\ cmd.op = "Update"
    /\ pc = "done"
    /\ ncalls = 2
    /\ [i \in DOMAIN log |-> log[i].kind] = <<"token", "resource", "token", "resource">>
    /\ log[2].auth = "Bearer t1"
    /\ log[4].auth = "Bearer t2"

\* C6: when the token endpoint answers with a status outside 2xx, the client
\* method returns a failure, the PubAPIError decoded from the token
\* response's body when the body holds one, and never sends its resource
\* request.
C6_TokenFailure ==
    NonSuccess(call.tokResp) =>
        /\ call.stage = "returned"
        /\ ~call.ret.ok
        /\ ReqsOf(ncalls, "resource") = {}
        /\ IsNone(call.resp)
        /\ HoldsApiError(call.tokResp[1].body) =>
                call.ret = Err("PubAPIError", call.tokResp[1].body.status[1],
                               call.tokResp[1].body.message[1])

C6_Witness ==
    /\ cmd.m.name = "get_users"
    /\ call.stage = "returned"
    /\ NonSuccess(call.tokResp)
    /\ call.tokResp[1].status = 403
    /\ call.ret = Err("PubAPIError", 403, "Forbidden")
    /\ Len(log) = 1

\* a 2xx token response whose body is JSON without a string access_token
NoAccessToken(o) ==
    /\ IsSome(o)
    /\ o[1].transport
    /\ is_success(o[1].status)
    /\ o[1].body.shape \in {"null", "object", "array"}
    /\ ~(IsSome(o[1].body.token) /\ o[1].body.token[1].str)

\* C7: a 2xx token response whose JSON body has no access_token, or one
\* that is not a string, ends the invocation in a panic inside
\* get_access_token: the client method returns nothing, not even an error,
\* and no resource request is sent.
C7_MissingTokenIsFatal ==
    NoAccessToken(call.tokResp) =>
        /\ pc = "panic"
        /\ panicMsg = "called Option::unwrap() on a None value"
        /\ call.stage = "panicked"
        /\ ReqsOf(ncalls, "resource") = {}

C7_Witness ==
    /\ NoAccessToken(call.tokResp)
    /\ call.tokResp[1].body = NonStringTokenBody
    /\ pc = "panic"
    /\ Resources = {}

\* C8: every method declared to return no value (the deletes, patch_account,
\* put_dataset_data, put_group_user, put_stream_execution_abort, ...)
\* returns Ok(()) whenever its token fetch succeeded and the server answered
\* its request with a 2xx status.
C8_UnitMethodSucceedsOn2xx ==
    (call.stage = "returned" /\ call.m.ret = "unit" /\ IsSome(call.resp)
        /\ call.resp[1].transport /\ is_success(call.resp[1].status))
    => call.ret = Ok(<<>>)

\* the token fetch of the call in progress returned an Authorization value
TokenFetched == IsSome(call.tokResp) /\ call.at # ""

\* C9 as claimed: a call sends its resource request at most once, exactly
\* once when its token fetch succeeded, and fetches its token once.
C9_Original ==
    \A n \in 1..ncalls :
        /\ Cardinality(ReqsOf(n, "token")) = 1
        /\ Cardinality(ReqsOf(n, "resource")) <= 1
        /\ (n = ncalls /\ TokenFetched) => Cardinality(ReqsOf(n, "resource")) = 1

\* the request body of the call in progress could not be read from its file
Unbuilt == call.m.file /\ ~cmd.fileOk

\* C9 amended: a call fetches its token once and sends its resource request
\* at most once: exactly once when the token fetch succeeded and the request
\* could be built, never when the token fetch failed or the part upload
\* could not read its file, and no request at all follows a call's failure.
C9_SingleRoundTrip ==
    /\ \A n \in 1..ncalls :
         /\ Cardinality(ReqsOf(n, "token")) = 1
         /\ Cardinality(ReqsOf(n, "resource")) <= 1
    /\ IsSome(call.tokResp) =>
         (Cardinality(ReqsOf(ncalls, "resource")) = 1
            <=> (TokenFetched /\ ~Unbuilt))
    /\ (call.stage = "returned" /\ ~call.ret.ok) =>
         /\ log[Len(log)].call = ncalls
         /\ pc \in {"await", "panic"}

C9_Witness ==
    /\ call.stage = "returned"
    /\ call.m.name = "get_streams"
    /\ pc = "panic"
    /\ IsSome(call.resp)
    /\ call.resp[1].status = 500
    /\ call.ret.err = "Decode"
    /\ Len(log) = 2

\* the write requests sent
Writes == { i \in Resources : log[i].verb # "GET" }

\* some collection of the page's listing has the id asked for
Listed == \E i \in DOMAIN pages[1] : pages[1][i] = Some(cmd.cid)

\* C10: update-collection lists the page's collections first; when none has
\* the id asked for it panics with Invalid Collection Id, starts no edit and
\* sends no write; when one has, it goes on to the edit step and, the edit
\* and the token fetch done, sends exactly one write, a PUT to that
\* collection id on that page, and sends nothing after it.
C10_UpdateCollection ==
    cmd.op = "UpdateCollection" =>
        /\ log # <<>> =>
             /\ log[1].scope = "dashboard"
             /\ Len(log) >= 2 =>
                  /\ log[2].verb = "GET"
                  /\ log[2].route = "/v1/pages/{}/collections"
                  /\ log[2].ids = cmd.ids
        /\ (pages = <<>>) => (Writes = {} /\ editObj = None /\ pc # "edit")
        /\ (pages # <<>> /\ ~Listed) =>
             /\ pc = "panic"
             /\ panicMsg = "Invalid Collection Id"
             /\ editObj = None
             /\ Writes = {}
             /\ ncalls = 1
        /\ (pages # <<>> /\ Listed) =>
             /\ editObj # None
             /\ panicMsg # "Invalid Collection Id"
             /\ Cardinality(Writes) <= 1
             /\ \A i \in Writes :
                  /\ i = Len(log)
                  /\ log[i].verb = "PUT"
                  /\ log[i].route = "/v1/pages/{}/collections/{}"
                  /\ log[i].ids = cmd.ids \o <<cmd.cid>>
             /\ (ncalls = 2 /\ TokenFetched) => Cardinality(Writes) = 1
             /\ pc = "done" => Cardinality(Writes) = 1

C10_Witness ==
    /\ cmd.op = "UpdateCollection"
    /\ cmd.cid = 3
    /\ pages = << <<Some(1), Some(2)>> >>
    /\ pc = "panic"
    /\ panicMsg = "Invalid Collection Id"
    /\ Writes = {}

C10_WitnessWrite ==
    /\ cmd.op = "UpdateCollection"
    /\ cmd.cid = 2
    /\ pages = << <<Some(1), Some(2)>> >>
    /\ pc = "done"
    /\ Cardinality(Writes) = 1

\* ------------------------------------------------- account create (C11, C12)
AccountCreate == cmd.op = "AccountCreate"

\* the properties the default template of the fetched account type lists
DefaultListed == accountType[1].templates[1]["default"].properties

HasDefault ==
    /\ IsSome(accountType)
    /\ IsSome(accountType[1].templates)
    /\ "default" \in DOMAIN accountType[1].templates[1]

\* the object account create hands to the edit step
Handed == pc = "edit" /\ AccountCreate

HandedProperties == editObj[1].account_type[1].properties

LastNamed(ps, n) ==
    ps[CHOOSE i \in DOMAIN ps :
         /\ ps[i].name = Some(n)
         /\ \A j \in DOMAIN ps : ps[j].name = Some(n) => j <= i]

Posts == { i \in Resources : log[i].verb = "POST" }

\* edit_obj ran the editor to its end and read an object back
EditReturned == edit.editor \in {"exit0", "exit1"} /\ IsSome(edit.parsed)

\* C12: account create fetches the account type, seeds, edits, posts, in
\* that order: the account made from the template has no account_type until
\* get_account_type has returned one; every failure of get_account_type
\* ends the command before the editor and the POST; the POST call is entered
\* only once the edit step has handed back an object, carries that object,
\* and sends POST /v1/accounts exactly once when its token fetch went
\* through, never twice.
C12_CreateOrder ==
    AccountCreate =>
        /\ (IsSome(account) /\ IsNone(accountType)) => account[1] = Account_template
        /\ (IsSome(account) /\ IsSome(account[1].account_type)) =>
              /\ IsSome(accountType)
              /\ call.m.name = "get_account_type"
              /\ call.stage = "returned"
              /\ call.ret.ok
              /\ pc = "edit"
        /\ pc = "edit" => (ncalls = 1 /\ call.ret.ok /\ Len(log) = 2)
        /\ (call.m.name = "get_account_type" /\ call.stage \in {"returned", "panicked"}
              /\ ~(call.stage = "returned" /\ call.ret.ok)) =>
              /\ edit = NoEdit
              /\ editObj = None
              /\ pc \in {"await", "panic"}
              /\ ncalls = 1
              /\ Posts = {}
        /\ \A i \in Resources :
              IF i = 2
              THEN log[i].verb = "GET" /\ log[i].route = "/v1/account-types/{}"
              ELSE /\ i = 4
                   /\ log[i].verb = "POST"
                   /\ log[i].route = "/v1/accounts"
                   /\ log[i].ids = <<>>
                   /\ log[i].payload = edit.parsed[1]
        /\ ncalls <= 2
        /\ ncalls = 2 => EditReturned
        /\ Cardinality(Posts) <= 1
        /\ (ncalls = 2 /\ TokenFetched) => Cardinality(Posts) = 1

C12_Witness ==
    /\ AccountCreate
    /\ pc = "done"
    /\ edit.editor = "exit0"
    /\ [i \in DOMAIN log |-> log[i].verb] = <<"GET", "GET", "GET", "POST">>
    /\ log[4].payload = <<Some(2)>>
    /\ out = Some(<<Some(1)>>)

\* ------------------------------------------------------- serde (C13, C14)
\* a payload was received and decoded
Decoded == IsNone(dval) /\ IsSome(dback) /\ dback[1].ok

\* the payload received with the field's key added, holding the falsy value
WithFalsy(f) == insert(djson[1], f.key, to_json(f.kind, Falsy(f.kind)))

\* C13: for every record type and every field of it, what a payload without
\* the field's key decodes to in that field differs from what the same
\* payload with the key present and holding 0, false, "" or an empty list
\* or map decodes to.
C13_AbsentIsUnset ==
    Decoded =>
        \A i \in DOMAIN StructNamed(dtype).fields :
            LET f == StructNamed(dtype).fields[i]
                other == deserialize(StructNamed(dtype), WithFalsy(f))
            IN f.key \notin DOMAIN djson[1] =>
                 /\ other.ok
                 /\ other.val[f.name] # dback[1].val[f.name]

\* C13 for the Option fields alone
C13_AbsentOptionIsNone ==
    Decoded =>
        \A i \in DOMAIN StructNamed(dtype).fields :
            LET f == StructNamed(dtype).fields[i]
                other == deserialize(StructNamed(dtype), WithFalsy(f))
            IN (f.option /\ f.key \notin DOMAIN djson[1]) =>
                 /\ dback[1].val[f.name] = None
                 /\ other.ok
                 /\ other.val[f.name] = Some(Falsy(f.kind))

\* C14: for every record type T and value v of it, deserializing the
\* serialization of v succeeds and gives v back, field for field, unset
\* fields included.
C14_RoundTrip ==
    (IsSome(dval) /\ IsSome(dback)) => dback[1] = Ok(dval[1])

\* a Filter with no values: the key is left out and comes back as the
\* empty list
C14_Witness ==
    /\ dtype = "Filter"
    /\ IsSome(dval)
    /\ dval[1]["values"] = <<>>
    /\ dval[1]["not"] = Some(FALSE)
    /\ dval[1]["column"] = None
    /\ IsSome(djson)
    /\ DOMAIN djson[1] = {"column", "not", "operator"}
    /\ djson[1]["column"] = "null"
    /\ dback = Some(Ok(dval[1]))

\* a Group with one field set: the unset ones are left out
C14_WitnessGroup ==
    /\ dtype = "Group"
    /\ IsSome(dval)
    /\ dval[1]["active"] = Some(FALSE)
    /\ IsSome(djson)
    /\ DOMAIN djson[1] = {"active"}
    /\ dback = Some(Ok(dval[1]))

\* --------------------------------------------------- failures (C15 - C18)
\* C15: a call whose response has a status outside 2xx and a body that does
\* not hold an error object fails with an error that is no PubAPIError and
\* that carries both the decode failure and the status of the response.
C15_DecodeFailureKeepsStatus ==
    (call.stage = "returned" /\ NonSuccess(call.resp)
        /\ ~HoldsApiError(call.resp[1].body))
    => /\ ~call.ret.ok
       /\ call.ret.err = "Decode"
       /\ call.ret.status = call.resp[1].status

\* the response of the call in progress came with a 2xx status
Success2xx == IsSome(call.resp) /\ call.resp[1].transport /\ is_success(call.resp[1].status)

\* the body is not of the type the method decodes a 2xx body into
Malformed(m, b) ==
    CASE m.ret \in {"obj", "wrapped"} -> b.shape # "object"
      [] m.ret = "list" -> b.shape # "array"
      [] m.ret = "unit" -> m.style = "surf" /\ b.shape # "null"
      [] OTHER -> FALSE

\* C16: a call answered 2xx with a body that is not of the expected type
\* fails with the decode error, which carries no value and is not a
\* PubAPIError; a call answered 2xx fails in no other way, and a PubAPIError
\* only ever comes out of a response with a status outside 2xx, so the two
\* kinds of failure can be told apart.
C16_MalformedResponse ==
    /\ (call.stage = "returned" /\ Success2xx) =>
          /\ Malformed(call.m, call.resp[1].body) <=> ~call.ret.ok
          /\ ~call.ret.ok => call.ret = Err("Decode", 0, "")
    /\ (call.stage = "returned" /\ call.ret.err = "PubAPIError") =>
          (NonSuccess(call.tokResp) \/ NonSuccess(call.resp))

C16_Witness ==
    /\ call.m.name = "get_integrations"
    /\ call.stage = "returned"
    /\ Success2xx
    /\ call.resp[1].body = ArrayBody(<<Some(1)>>)
    /\ call.ret = Err("Decode", 0, "")
    /\ pc = "panic"

Edits == cmd.op \in {"Update", "UpdateCollection", "Create", "AccountCreate"}

\* C17: in every create and update command, an editor that cannot be
\* started or that exits with a failure status, a temporary file that cannot
\* be written or read, or content that does not parse, ends the command at
\* the edit step, and no POST, PUT or PATCH is sent.
C17_EditFailureStopsWrite ==
    (Edits /\ edit # NoEdit
        /\ (~edit.written \/ edit.editor # "exit0" \/ ~edit.readback
              \/ IsNone(edit.parsed)))
    => /\ pc = "panic"
       /\ Writes = {}

\* what edit_obj itself takes for a failure: the editor's exit status is
\* not among it
EditFailed(run) ==
    ~run.written \/ run.editor = "nostart" \/ ~run.readback \/ IsNone(run.parsed)

\* C18: once a step of a command has failed (a client call returned an
\* error, whether from the token fetch, the request, the status or the
\* decoding; edit_obj returned an error; a file could not be read; an unwrap
\* or the collection scan found nothing) the next thing that happens is the
\* panic, with no request sent and nothing rendered; nothing at all happens
\* after the panic, so a list-all that fails on its k-th page renders none
\* of the pages it has.
C18_FailFast ==
    /\ [](pc = "panic" => out = None)
    /\ [][/\ (Returned /\ ~call.ret.ok) =>
                (pc' = "panic" /\ log' = log /\ ncalls' = ncalls /\ out' = None)
          /\ (pc = "edit" /\ EditFailed(edit')) =>
                (pc' = "panic" /\ log' = log /\ ncalls' = ncalls /\ out' = None)
          /\ pc' = "panic" => (log' = log /\ out' = out)
          /\ pc # "panic"]_vars

\* list-all: two full pages fetched, the third request fails, nothing is
\* rendered
C18_Witness ==
    /\ ListAll
    /\ Len(pages) = 2
    /\ Len(r) = 100
    /\ call.stage = "returned"
    /\ ~call.ret.ok
    /\ pc = "panic"
    /\ out = None
    /\ ncalls = 3

\* ------------------------------------------------------- scopes (C19)
\* the scope fixed for each family of methods
Families ==
    { [methods |-> AccountMethods, scope |-> "account"],
      [methods |-> DataSetMethods, scope |-> "data"],
      [methods |-> StreamMethods, scope |-> "data"],
      [methods |-> UserMethods, scope |-> "user"],
      [methods |-> GroupMethods, scope |-> "user"],
      [methods |-> PageMethods, scope |-> "dashboard"],
      [methods |-> WorkflowMethods, scope |-> "workflow"],
      [methods |-> BuzzMethods, scope |-> "buzz"],
      [methods |-> ActivityMethods, scope |-> "audit"] }

\* the families with a method that sends this request
FamiliesOf(req) ==
    { f \in Families :
        \E m \in f.methods : m.verb = req.verb /\ m.route = req.route }

\* C19: every resource request comes right after a token request of the same
\* call whose scope is the one fixed for the family of the request (account,
\* data, user, dashboard, workflow, buzz, audit), and carries the token that
\* very request was answered with.
C19_FamilyScope ==
    \A i \in Resources :
        /\ i > 1
        /\ log[i - 1].kind = "token"
        /\ log[i - 1].call = log[i].call
        /\ Cardinality(FamiliesOf(log[i])) = 1
        /\ \A f \in FamiliesOf(log[i]) : log[i - 1].scope = f.scope
        /\ log[i].auth = "Bearer " \o TokenFor(log[i].call)

C19_Witness ==
    /\ cmd.op = "Update"
    /\ cmd.m.name = "get_group"
    /\ pc = "done"
    /\ log[1].kind = "token" /\ log[1].scope = "user"
    /\ log[3].kind = "token" /\ log[3].scope = "user"
    /\ log[2].route = "/v1/groups/{}"
    /\ log[4].verb = "PUT"

\* ------------------------------------------------- the token request (C20)
\* a 2xx token response whose body has a string access_token
HasAccessToken(o) ==
    /\ IsSome(o)
    /\ o[1].transport
    /\ is_success(o[1].status)
    /\ o[1].body.shape = "object"
    /\ IsSome(o[1].body.token)
    /\ o[1].body.token[1].str

\* C20: every token request is GET {host}/oauth/token with
\* grant_type=client_credentials, the scope of the method that asks, and
\* Authorization: Basic base64(client_id:client_secret) of the client as
\* configured; a 2xx answer with a string access_token makes
\* get_access_token return Bearer followed by that very token, and the
\* resource request of the call, to the same host, carries exactly that.
C20_TokenRequest ==
    /\ \A i \in Tokens :
         /\ log[i].verb = "GET"
         /\ log[i].host = dc.host
         /\ log[i].route = "/oauth/token"
         /\ log[i].grant_type = "client_credentials"
         /\ log[i].auth
              = "Basic " \o base64_encode(dc.client_id \o ":" \o dc.client_secret)
         /\ log[i].call = ncalls => log[i].scope = call.m.scope
    /\ HasAccessToken(call.tokResp) =>
         /\ call.at = "Bearer " \o call.tokResp[1].body.token[1].v
         /\ \A i \in ReqsOf(ncalls, "resource") :
              /\ log[i].auth = call.at
              /\ log[i].host = dc.host
    /\ \A i \in Resources : log[i].auth = "Bearer " \o TokenFor(log[i].call)

C20_Witness ==
    /\ call.m.name = "get_account"
    /\ dc.client_id = "id2"
    /\ call.tokResp = Some(Response(200, TokenBody("t1")))
    /\ log[1].auth = "Basic base64(id2:secret2)"
    /\ log[1].scope = "account"
    /\ Len(log) = 2
    /\ log[2].auth = "Bearer t1"
    /\ log[2].host = "https://domo.example"

\* ------------------------------------------------------------ C21 .. C22
Library == cmd.op = "Library"

\* the PUT .../commit requests and the PUT .../part/{} requests sent so far
Commits ==
    { i \in Resources : log[i].route = "/v1/streams/{}/executions/{}/commit" }
Parts ==
    { i \in Resources : log[i].route = "/v1/streams/{}/executions/{}/part/{}" }

\* C21: the client keeps no minimum interval between commits: whatever was
\* committed before, a put_stream_execution_commit call whose token fetch
\* went through sends exactly one PUT .../commit for the stream and the
\* execution it was given, and no call sends more than one; a commit the
\* server turns down with a status outside 2xx and an error object returns
\* the PubAPIError of that object, and nothing is sent again for it.
C21_CommitUnthrottled ==
    (Library /\ call.m.name = "put_stream_execution_commit") =>
        LET sent == ReqsOf(ncalls, "resource")
        IN /\ Cardinality(ReqsOf(ncalls, "token")) = 1
           /\ Cardinality(sent) <= 1
           /\ \A n \in 1..ncalls : Cardinality(ReqsOf(n, "resource")) <= 1
           /\ TokenFetched =>
                /\ Cardinality(sent) = 1
                /\ \A i \in sent :
                     /\ i \in Commits
                     /\ log[i].verb = "PUT"
                     /\ log[i].ids = <<7, 8>>
           /\ (call.stage = "returned" /\ NonSuccess(call.resp)
                 /\ HoldsApiError(call.resp[1].body)) =>
                /\ call.ret = Err("PubAPIError", call.resp[1].body.status[1],
                                  call.resp[1].body.message[1])
                /\ Cardinality(sent) = 1
                /\ log[Len(log)].call = ncalls

\* three commits of the same execution one right after the other, each one
\* sent, the last one turned down by the server
C21_Witness ==
    /\ Library
    /\ ncalls = MaxCalls
    /\ Cardinality(Commits) = MaxCalls
    /\ \A i \in Commits : log[i].ids = <<7, 8>>
    /\ pc = "caller"
    /\ NonSuccess(call.resp)
    /\ call.ret.err = "PubAPIError"

PartCall == Library /\ call.m.name = "put_stream_execution_part"

\* a request without what differs from call to call: its number and its token
Bare(q) == [q EXCEPT !.call = 0, !.auth = ""]

\* C22 as claimed: every put_stream_execution_part call (past its token
\* fetch) sends exactly one PUT .../part/{partId} with the part id it was
\* given.
C22_Original ==
    (PartCall /\ TokenFetched) =>
        /\ Cardinality(ReqsOf(ncalls, "resource")) = 1
        /\ \A i \in ReqsOf(ncalls, "resource") :
             i \in Parts /\ log[i].verb = "PUT" /\ log[i].ids = call.ids

\* C22 amended: a put_stream_execution_part call sends at most one request;
\* when its token fetch went through and its CSV file could be read it sends
\* exactly one PUT .../part/{partId} with the stream, execution and part id
\* the caller gave, whatever parts were uploaded before and in whatever
\* order; when the file cannot be read it sends none. The client keeps no
\* record of parts: two uploads of the same part differ in nothing but the
\* token, and a call that sent its request returns what the answer decides.
C22_PartUpload ==
    /\ PartCall =>
        LET sent == ReqsOf(ncalls, "resource")
        IN /\ Cardinality(sent) <= 1
           /\ (TokenFetched /\ ~Unbuilt) =>
                /\ Cardinality(sent) = 1
                /\ \A i \in sent :
                     /\ i \in Parts
                     /\ log[i].verb = "PUT"
                     /\ log[i].ids = call.ids
                     /\ call.stage = "returned" => IsSome(call.resp)
           /\ Unbuilt => sent = {}
           /\ call.ids[3] \in PartIds
    /\ Library =>
        \A i \in Parts : \A j \in Parts :
            log[i].ids = log[j].ids => Bare(log[i]) = Bare(log[j])

\* part 2 uploaded, part 2 uploaded again with the same request, then
\* part 1: all three sent as asked
C22_Witness ==
    /\ Library
    /\ Cardinality(Parts) = 3
    /\ Len(log) = 6
    /\ log[2].ids = <<7, 8, 2>>
    /\ log[4].ids = <<7, 8, 2>>
    /\ log[6].ids = <<7, 8, 1>>
    /\ Bare(log[2]) = Bare(log[4])
    /\ pc = "caller"
    /\ call.ret.ok

\* ------------------------------------------------------------ C23 .. C24
\* C23: within one invocation at most one request is outstanding, and it is
\* the last one sent: a request (token fetch or resource call) goes out only
\* once every earlier one has been answered, nothing is outstanding while
\* the command is at its start, in the editor or over, and list-all has sent
\* the request for page k+1 only with pages 1..k received and appended to
\* the aggregate.
C23_OneOutstanding ==
    /\ Cardinality(inflight) <= 1
    /\ inflight \subseteq {Len(log)}
    /\ pc \in {"start", "edit", "done", "panic"} => inflight = {}
    /\ (pc = "await" /\ call.stage \in {"token", "resource"}) => inflight = {Len(log)}
    /\ ListAll =>
         /\ \A i \in DOMAIN log : log[i].call <= Len(pages) + 1
         /\ r = Concat(pages)

\* list-all waiting for its second page, the first one in the aggregate
C23_Witness ==
    /\ ListAll
    /\ Len(log) = 4
    /\ inflight = {4}
    /\ log[4].kind = "resource"
    /\ Len(pages) = 1
    /\ Len(r) >= PageSize

\* C24: account create never fails locally over a field the fetched account
\* type lacks: once get_account_type has returned a type, whatever its
\* default template holds, the command is at the edit step.
C24_NoFieldRequired ==
    (AccountCreate /\ call.m = cmd.m /\ IsSome(accountType)) => pc = "edit"

\* ------------------------------------------------------------------- C25
\* what a CSV text says, told apart from how the reader walks it: the text
\* cut at every separator
RECURSIVE Split(_, _)
Split(s, sep) ==
    IF \A i \in DOMAIN s : s[i] # sep THEN <<s>>
    ELSE LET i == CHOOSE k \in DOMAIN s :
                    s[k] = sep /\ \A j \in 1..(k - 1) : s[j] # sep
         IN <<SubSeq(s, 1, i - 1)>> \o Split(SubSeq(s, i + 1, Len(s)), sep)

\* the lines that hold something, each cut at its commas
Records(text) ==
    LET lines == SelectSeq(Split(text, "\n"), LAMBDA l : l # <<>>)
    IN [i \in DOMAIN lines |->
          LET fs == Split(lines[i], ",") IN [j \in DOMAIN fs |-> as_str(fs[j])]]

Rectangular(recs) == \A i \in DOMAIN recs : Len(recs[i]) = Len(recs[1])

AsLists == csvTemplate \in {"json", "yaml"}

\* C25 as claimed: with the json template every text is printed as the list
\* of its records, one list of strings per record in input order.
C25_Original ==
    (csvTemplate = "json" /\ csvPc \in {"done", "panic"}) =>
        /\ csvPc = "done"
        /\ csvOut[1].rows = Records(csvText)

\* C25 amended: with the json template the reader handles no header; the
\* records read so far are the first records of the text, each once and in
\* order; a text whose records all have as many fields as the first is
\* printed as the JSON list of its records, one list of strings each, the
\* two lines a,b and 1,2 as [["a","b"],["1","2"]]; a text with a record of
\* another length panics at that record and prints nothing; and the loop
\* ends for every text.
C25_CsvRecords ==
    /\ [](AsLists =>
            /\ csvAggr = SubSeq(Records(csvText), 1, Len(csvAggr))
            /\ csvPc = "done" =>
                 /\ Rectangular(Records(csvText))
                 /\ csvOut[1].rows = Records(csvText)
                 /\ csvTemplate = "json" =>
                      csvOut[1].text = serde_json_to_string(Records(csvText))
                 /\ (csvTemplate = "json" /\ csvText = TwoLines) =>
                      csvOut[1].text = "[[\"a\",\"b\"],[\"1\",\"2\"]]"
            /\ csvPc = "panic" =>
                 /\ ~Rectangular(Records(csvText))
                 /\ csvOut = None)
    /\ <>(csvPc \in {"done", "panic"})

\* the two lines a,b and 1,2 printed with the json template
C25_Witness ==
    /\ csvText = TwoLines
    /\ csvTemplate = "json"
    /\ csvPc = "done"
    /\ csvOut[1].text = "[[\"a\",\"b\"],[\"1\",\"2\"]]"

\* ------------------------------------------------------------------- C26
Min(a, b) == IF a < b THEN a ELSE b

\* the pages received are those of a server that holds the records 1..n in
\* order and honours limit and offset
HonestFor(n) ==
    \A i \in DOMAIN pages :
        LET off == PageSize * (i - 1)
        IN pages[i] = Items(off, IF n > off THEN Min(PageSize, n - off) ELSE 0, FALSE)

\* a page of records has come back to the loop
PageBack == ListAll /\ Returned /\ call.ret.ok

Update == cmd.op = "Update"

\* C27: an update command retrieves, edits, writes, in that order: the edit
\* step is entered only from a retrieve that returned an object, and with
\* that object; the write call is entered only from an edit step that read
\* an object back, with that object as its body and the command line's ids;
\* at most one write request is ever sent, it is the write method's verb
\* and route with the command line's ids and the edited object, whatever id
\* the object holds, and exactly one has been sent once the write call's
\* token fetch went through.
C27_UpdateFlow ==
    /\ [](Update =>
            /\ Len(log) >= 2 =>
                 /\ log[2].verb = "GET"
                 /\ log[2].route = cmd.m.route
                 /\ log[2].ids = cmd.ids
            /\ Cardinality(Writes) <= 1
            /\ \A i \in Writes :
                 /\ i = 4
                 /\ log[i].verb = cmd.w.verb
                 /\ log[i].route = cmd.w.route
                 /\ log[i].ids = cmd.ids
                 /\ IsSome(edit.parsed)
                 /\ log[i].payload = edit.parsed[1]
            /\ (ncalls = 2 /\ TokenFetched) => Cardinality(Writes) = 1
            /\ pc = "done" => Cardinality(Writes) = 1)
    /\ [][Update =>
            /\ (pc # "edit" /\ pc' = "edit") =>
                 /\ Returned
                 /\ call.m = cmd.m
                 /\ call.ret.ok
                 /\ editObj' = Some(call.ret.val)
                 /\ Writes = {}
            /\ ncalls' = 2 /\ ncalls = 1 =>
                 /\ pc = "edit"
                 /\ edit'.written /\ edit'.readback /\ IsSome(edit'.parsed)
                 /\ call'.m = cmd.w
                 /\ call'.payload = edit'.parsed[1]
                 /\ call'.ids = cmd.ids]_vars

\* dataset update 7: the object retrieved holds id 1, the editor leaves an
\* object holding id 2, and the PUT goes to dataset 7 with that object
C27_Witness ==
    /\ Update
    /\ cmd.w.name = "put_dataset"
    /\ pc = "done"
    /\ log[2].ids = <<7>>
    /\ log[4].verb = "PUT"
    /\ log[4].ids = <<7>>
    /\ log[4].payload = <<Some(2)>>
    /\ edit.parsed = Some(<<Some(2)>>)

\* ------------------------------------------------------------ C28 .. C29
\* C28: with two invocations in their edit steps at once, the editor of each
\* loads the text its own invocation staged, and what an invocation's edit
\* step hands back is a text that invocation itself staged or saved: no
\* invocation's file is written over or read back by the other between its
\* write and its read-back.
C28_OwnContent ==
    \A p \in Procs :
        proc # <<>> =>
            /\ proc[p].pc \in {"editing", "exited", "done"} => proc[p].buf = staged(p)
            /\ proc[p].pc = "done" =>
                  /\ proc[p].ret[1] # <<>>
                  /\ proc[p].ret[1][2] = p

\* an invocation back from edit_obj or edit_md, with a value or an error,
\* after it had created its staging file
Back(p) == proc[p].pc \in {"done", "failed"} /\ proc[p].created

\* C29: edit_obj and edit_md never remove their staging file: a file that is
\* there stays there, it is there whenever an invocation that created it is
\* back with a value or with an error, what it holds is empty, staged or
\* saved by an editor, and returning changes nothing in it.
C29_FileKept ==
    /\ [](proc # <<>> =>
            \A p \in Procs : Back(p) =>
                /\ IsSome(file[proc[p].fn])
                /\ \/ file[proc[p].fn][1] = <<>>
                   \/ \E q \in Procs : file[proc[p].fn][1] = staged(q)
                   \/ \E q \in Procs : file[proc[p].fn][1][1] = "saved")
    /\ [][proc # <<>> =>
            /\ \A f \in EditFns : IsSome(file[f]) => IsSome(file'[f])
            /\ \A p \in Procs :
                 (proc'[p].pc \in {"done", "failed"} /\ proc[p].pc # proc'[p].pc)
                    => file' = file]_vars

\* an invocation back from edit_obj with the object its editor saved, the
\* file still holding that text
C29_Witness ==
    /\ proc # <<>>
    /\ proc[1].fn = "edit_obj"
    /\ proc[1].pc = "done"
    /\ proc[1].ret = Some(saved(1, staged(1)))
    /\ file["edit_obj"] = Some(saved(1, staged(1)))
    /\ proc[2].fn = "edit_md"
    /\ proc[2].pc = "failed"
    /\ proc[2].created
    /\ IsSome(file["edit_md"])

\* ------------------------------------------------------------------- C30
\* C30: a webhook call that got an HTTP response returns success whatever
\* the status when it is post_buzz_message or post_dataset_json, and
\* returns success exactly on a 2xx status when it is
\* post_integration_message; a call that got no response fails.
C30_WebhookStatus ==
    (cmd.op = "Webhook" /\ call.stage = "returned" /\ IsSome(call.resp)) =>
        LET resp == call.resp[1]
        IN IF ~resp.transport THEN ~call.ret.ok
           ELSE IF cmd.m.name = "post_integration_message"
           THEN call.ret.ok <=> is_success(resp.status)
           ELSE call.ret.ok

====
